---- MODULE Spec2Model ----
(***************************************************************************)
(* A model of the AI document-processing service (src/ai_service): the     *)
(* pattern matcher, the three-agent pipeline of process_documents and the  *)
(* evaluation engine of Agent 3.                                           *)
(*                                                                         *)
(* Texts are sequences of one-character strings, so that split, lower,     *)
(* slicing and the word boundaries of the regular expressions are computed *)
(* and not assumed.  Scores are IEEE-754 doubles, represented exactly by   *)
(* two small integers (see "Floating point" below), so that the rounding   *)
(* of (g + a + r) / 3.0 is the rounding the interpreter performs.          *)
(***************************************************************************)
EXTENDS Integers, Sequences, FiniteSets, TLC

VARIABLES
    pc,                   \* the reasoning call the request waits for, or start/done/error
    runtime_json,         \* the request: file_paths and prompt
    document_texts,       \* the documents the extractor returned
    should_use_pattern,   \* the routing decision of should_use_pattern_matching
    condensed_context,    \* the text built from the pattern matches on the fast path
    agent_1_output,       \* the draft
    agent_2_output,       \* the condensed answer
    final_answer_result,  \* the result of _determine_final_answer
    groundedness_result,  \* the result of _evaluate_groundedness
    accuracy_result,      \* the result of _evaluate_accuracy
    json_result,          \* per structured step, what json.loads made of the response
    calls,                \* the reasoning calls issued so far, each with its outcome
    http,                 \* the HTTPException raised, if any
    response,             \* the AIResponse returned, if any
    scores,               \* the values handed to the aggregation of _evaluate_answers
    built,                \* what the aggregation made of scores
    pm_in,                \* the arguments of a PatternMatcher call
    pm_out,               \* its result
    sent,                 \* what each reasoning call of the request was given
    extract_in,           \* the arguments of _extract_sections_used
    extract_out,          \* its result
    requests,             \* the requests in progress when two are served together
    pattern_matcher,      \* the PatternMatcher instance all requests share
    backend,              \* a request to the backend's /api/process and its answer
    analyzer              \* a call of SmartContextFileAnalyzer (test2.py) and its result

vars == <<pc, runtime_json, document_texts, should_use_pattern, condensed_context,
          agent_1_output, agent_2_output,
          final_answer_result, groundedness_result, accuracy_result, json_result, calls,
          http, response, scores, built, pm_in, pm_out,
          sent, extract_in, extract_out, requests, pattern_matcher, backend, analyzer>>

(***************************************************************************)
(* Floating point.                                                         *)
(*                                                                         *)
(* A double x is the record [n, d] with x = n/30 + d * u exactly, where    *)
(* u = 2^-60 / 30.  n is the nominal value in thirtieths (scores are       *)
(* tenths, the mean divides by three) and d is the deviation of the double *)
(* from the nominal value.  Round computes round-to-nearest, ties-to-even  *)
(* on the 53-bit grid of the binade of the value with modular arithmetic   *)
(* on small integers.                                                      *)
(***************************************************************************)
Scale == 3 * 10
DevBits == 52 + 8

RECURSIVE PowMod(_, _, _)
PowMod(b, m, mod) == IF m = 0 THEN 1 % mod ELSE (b * PowMod(b, m - 1, mod)) % mod

RECURSIVE Pow2(_)
Pow2(m) == IF m = 0 THEN 1 ELSE 2 * Pow2(m - 1)

\* Both powers, tabulated once.
Pow2Table == [m \in 0..14 |-> Pow2(m)]
Pow2ModScale == [m \in 0..DevBits |-> PowMod(2, m, Scale)]

\* j = e + 8 for the binade [2^e, 2^(e+1)) of the value n/30 (n > 0); a value
\* just below a power of two lies in the binade underneath.
Binade(n, below) ==
    LET j == CHOOSE k \in 0..12 :
                 Scale * Pow2Table[k] <= 256 * n /\ 256 * n < Scale * Pow2Table[k + 1]
    IN  IF Scale * Pow2Table[j] = 256 * n /\ below THEN j - 1 ELSE j

\* Round-to-nearest, ties-to-even, of the remainder r2 of the value above the
\* last even grid point, for the grid spacing M and the divisor q.
Nearest(d, q, M, r2) ==
    IF r2 >= q * M
    THEN (d - (r2 - q * M) + (IF 2 * (r2 - q * M) >= q * M THEN q * M ELSE 0)) \div q
    ELSE (d - r2 + (IF 2 * r2 > q * M THEN q * M ELSE 0)) \div q

\* The same on the grid of binade j: the grid spacing is M = 30 * 2^j and base is
\* the remainder of the nominal value n/30 above the last even grid point.
RoundIn(n, d, q, j) ==
    Nearest(d, q, Scale * Pow2Table[j],
            (q * (Pow2Table[j + 1] * ((n * Pow2ModScale[DevBits - j - 1]) % Scale)) + d)
                % (2 * q * Scale * Pow2Table[j]))

\* The deviation of the double nearest to n/30 + (d/q) * u, for n > 0.
RoundPos(n, d, q) == RoundIn(n, d, q, Binade(n, d < 0))

Sign(n) == IF n < 0 THEN 0 - 1 ELSE 1

\* Zero is exact; a nonzero value of nominal zero is outside the representation
\* and has no CASE arm, so that TLC stops rather than computes a wrong double.
Round(n, d, q) ==
    CASE n # 0 -> Sign(n) * RoundPos(Sign(n) * n, Sign(n) * d, q)
      [] n = 0 /\ d = 0 -> 0

\* The doubles 0.0 and 1.0, which are exact.
Zero == [n |-> 0, d |-> 0]
One == [n |-> Scale, d |-> 0]

\* The double written k/10 in the source or in a JSON number.
Tenths(k) == [n |-> 3 * k, d |-> Round(3 * k, 0, 1)]

FAdd(x, y) == [n |-> x.n + y.n, d |-> Round(x.n + y.n, x.d + y.d, 1)]

\* x / 3.0 for a double x whose nominal value is a whole number of tenths.
FDiv3(x) == [n |-> x.n \div 3, d |-> Round(x.n \div 3, x.d, 3)]

FLt(x, y) == x.n < y.n \/ (x.n = y.n /\ x.d < y.d)
FLe(x, y) == x.n < y.n \/ (x.n = y.n /\ x.d <= y.d)

(***************************************************************************)
(* Text.  A str is a sequence of one-character strings.                    *)
(***************************************************************************)
LowerCase == <<"a", "b", "c", "d", "e", "f", "g", "h", "i", "j", "k", "l", "m",
               "n", "o", "p", "q", "r", "s", "t", "u", "v", "w", "x", "y", "z">>
UpperCase == <<"A", "B", "C", "D", "E", "F", "G", "H", "I", "J", "K", "L", "M",
               "N", "O", "P", "Q", "R", "S", "T", "U", "V", "W", "X", "Y", "Z">>
Digits == <<"0", "1", "2", "3", "4", "5", "6", "7", "8", "9">>

Range(f) == {f[i] : i \in DOMAIN f}

\* str.lower() on one character, and on a str.
LowerTable == [c \in Range(UpperCase) |-> LowerCase[CHOOSE i \in 1..26 : UpperCase[i] = c]]
LowerChar(c) == IF c \in DOMAIN LowerTable THEN LowerTable[c] ELSE c

Lower(s) == [i \in 1..Len(s) |-> LowerChar(s[i])]

\* \w of the regular expressions, and the whitespace of split() and strip().
WordChars == Range(LowerCase) \cup Range(UpperCase) \cup Range(Digits) \cup {"_"}
IsWordChar(c) == c \in WordChars
IsSpace(c) == c \in {" ", "\n", "\t"}

\* re.search of \b(alt1|alt2|...)\b in s; every alternative is lower-case text
\* that begins and ends with a word character.  ignorecase is the (?i) flag.
MatchesAt(alt, s, i, ignorecase) ==
    /\ i + Len(alt) - 1 <= Len(s)
    /\ LET seg == SubSeq(s, i, i + Len(alt) - 1)
       IN  (IF ignorecase THEN Lower(seg) ELSE seg) = alt
    /\ (i = 1 \/ ~IsWordChar(s[i - 1]))
    /\ (i + Len(alt) - 1 = Len(s) \/ ~IsWordChar(s[i + Len(alt)]))

Search(alts, s, ignorecase) ==
    \E alt \in alts : \E i \in 1..Len(s) : MatchesAt(alt, s, i, ignorecase)

\* text.split(sep) for a one-character separator.
RECURSIVE Split(_, _)
Split(s, sep) ==
    IF \E i \in 1..Len(s) : s[i] = sep
    THEN LET i == CHOOSE k \in 1..Len(s) : s[k] = sep /\ \A m \in 1..(k - 1) : s[m] # sep
         IN  <<SubSeq(s, 1, i - 1)>> \o Split(SubSeq(s, i + 1, Len(s)), sep)
    ELSE <<s>>

\* sep.join(parts)
RECURSIVE Join(_, _)
Join(parts, sep) ==
    IF Len(parts) = 0 THEN <<>>
    ELSE IF Len(parts) = 1 THEN parts[1]
    ELSE parts[1] \o sep \o Join(Tail(parts), sep)

\* str.strip()
LStrip(s) ==
    IF \A i \in 1..Len(s) : IsSpace(s[i]) THEN <<>>
    ELSE SubSeq(s, CHOOSE i \in 1..Len(s) : ~IsSpace(s[i]) /\ \A k \in 1..(i - 1) : IsSpace(s[k]),
                Len(s))
RStrip(s) ==
    IF \A i \in 1..Len(s) : IsSpace(s[i]) THEN <<>>
    ELSE SubSeq(s, 1,
                CHOOSE i \in 1..Len(s) : ~IsSpace(s[i]) /\ \A k \in (i + 1)..Len(s) : IsSpace(s[k]))
Strip(s) == LStrip(RStrip(s))

\* str.find / str.rfind: the 0-based index of the first / last c, or -1.
Find(s, c) ==
    IF \E i \in 1..Len(s) : s[i] = c
    THEN (CHOOSE i \in 1..Len(s) : s[i] = c /\ \A k \in 1..(i - 1) : s[k] # c) - 1
    ELSE -1

RFind(s, c) ==
    IF \E i \in 1..Len(s) : s[i] = c
    THEN (CHOOSE i \in 1..Len(s) : s[i] = c /\ \A k \in (i + 1)..Len(s) : s[k] # c) - 1
    ELSE -1

\* s[a:b] with Python's treatment of negative and out-of-range bounds.
PyIndex(len, i) == IF i < 0 THEN (IF len + i < 0 THEN 0 ELSE len + i)
                   ELSE IF i > len THEN len ELSE i

PySlice(s, a, b) ==
    LET lo == PyIndex(Len(s), a)
        hi == PyIndex(Len(s), b)
    IN  IF lo >= hi THEN <<>> ELSE SubSeq(s, lo + 1, hi)

(***************************************************************************)
(* PatternMatcher (services/pattern_matcher.py).                           *)
(***************************************************************************)
\* The keys of ENTITY_PATTERNS in insertion order, which is the order in which
\* compiled_patterns is iterated.
EntityOrder == <<"israel", "unsubstantiated", "substantiated", "complaint", "usa", "uk", "germany", "france", "italy", "spain", "canada", "australia", "japan", "china">>

\* ENTITY_PATTERNS: the alternatives of each (?i)\b(...)\b pattern.
ENTITY_PATTERNS ==
    "israel" :> {<<"i", "s", "r", "a", "e", "l">>,
            <<"i", "s", "r", "a", "e", "l", "i">>}
    @@ "unsubstantiated" :> {<<"u", "n", "s", "u", "b", "s", "t", "a", "n", "t", "i", "a", "t", "e", "d">>,
            <<"n", "o", "t", " ", "s", "u", "b", "s", "t", "a", "n", "t", "i", "a", "t", "e", "d">>,
            <<"u", "n", "v", "a", "l", "i", "d", "a", "t", "e", "d">>}
    @@ "substantiated" :> {<<"s", "u", "b", "s", "t", "a", "n", "t", "i", "a", "t", "e", "d">>,
            <<"v", "a", "l", "i", "d", "a", "t", "e", "d">>,
            <<"c", "o", "n", "f", "i", "r", "m", "e", "d">>}
    @@ "complaint" :> {<<"c", "o", "m", "p", "l", "a", "i", "n", "t">>,
            <<"a", "d", "v", "e", "r", "s", "e", " ", "e", "v", "e", "n", "t">>,
            <<"a", "e">>,
            <<"r", "e", "p", "o", "r", "t">>}
    @@ "usa" :> {<<"u", "s", "a">>,
            <<"u", "n", "i", "t", "e", "d", " ", "s", "t", "a", "t", "e", "s">>,
            <<"u", ".", "s", ".", "a">>,
            <<"a", "m", "e", "r", "i", "c", "a">>,
            <<"a", "m", "e", "r", "i", "c", "a", "n">>}
    @@ "uk" :> {<<"u", "k">>,
            <<"u", "n", "i", "t", "e", "d", " ", "k", "i", "n", "g", "d", "o", "m">>,
            <<"u", ".", "k">>,
            <<"b", "r", "i", "t", "a", "i", "n">>,
            <<"b", "r", "i", "t", "i", "s", "h">>}
    @@ "germany" :> {<<"g", "e", "r", "m", "a", "n", "y">>,
            <<"g", "e", "r", "m", "a", "n">>,
            <<"d", "e", "u", "t", "s", "c", "h", "l", "a", "n", "d">>}
    @@ "france" :> {<<"f", "r", "a", "n", "c", "e">>,
            <<"f", "r", "e", "n", "c", "h">>}
    @@ "italy" :> {<<"i", "t", "a", "l", "y">>,
            <<"i", "t", "a", "l", "i", "a", "n">>}
    @@ "spain" :> {<<"s", "p", "a", "i", "n">>,
            <<"s", "p", "a", "n", "i", "s", "h">>}
    @@ "canada" :> {<<"c", "a", "n", "a", "d", "a">>,
            <<"c", "a", "n", "a", "d", "i", "a", "n">>}
    @@ "australia" :> {<<"a", "u", "s", "t", "r", "a", "l", "i", "a">>,
            <<"a", "u", "s", "t", "r", "a", "l", "i", "a", "n">>}
    @@ "japan" :> {<<"j", "a", "p", "a", "n">>,
            <<"j", "a", "p", "a", "n", "e", "s", "e">>}
    @@ "china" :> {<<"c", "h", "i", "n", "a">>,
            <<"c", "h", "i", "n", "e", "s", "e">>}

\* __init__: one compiled pattern per entry of ENTITY_PATTERNS.
compiled_patterns == ENTITY_PATTERNS

\* The counting_keywords of is_counting_query, each \b...\b without (?i).
counting_keywords == {<<"h", "o", "w", " ", "m", "a", "n", "y">>,
                      <<"c", "o", "u", "n", "t">>,
                      <<"n", "u", "m", "b", "e", "r", " ", "o", "f">>,
                      <<"t", "o", "t", "a", "l">>,
                      <<"s", "u", "m">>}

MatchCap == 50
DefaultContextLines == 2

\* is_counting_query without the keyword of line 61.
IsCountingQueryNoHowMany(query) ==
    Search(counting_keywords \ {<<"h", "o", "w", " ", "m", "a", "n", "y">>}, Lower(query), FALSE)

\* is_counting_query
IsCountingQuery(query) == Search(counting_keywords, Lower(query), FALSE)

\* extract_entities_from_query: the entities whose pattern is found, in table order.
ExtractEntitiesFromQuery(query) ==
    SelectSeq(EntityOrder, LAMBDA e : Search(compiled_patterns[e], Lower(query), TRUE))

\* The keys of the dict comprehension of scan_document: the requested entities that
\* have a compiled pattern, each once, in order of first occurrence.
RECURSIVE PatternKeys(_)
PatternKeys(entities) ==
    IF entities = <<>> THEN <<>>
    ELSE LET rest == PatternKeys(SubSeq(entities, 1, Len(entities) - 1))
             e    == entities[Len(entities)]
         IN  IF e \in DOMAIN compiled_patterns /\ e \notin Range(rest)
             THEN Append(rest, e) ELSE rest

Max(a, b) == IF a > b THEN a ELSE b
Min(a, b) == IF a < b THEN a ELSE b

\* The entities of the pattern dict that match one line.
MatchedEntities(patterns, line) ==
    SelectSeq(patterns, LAMBDA e : Search(compiled_patterns[e], line, TRUE))

\* The MatchResult of line 124 with the slice ending at i + context_lines.
MatchResultShortEnd(lines, i, patterns, context_lines) ==
    LET start == Max(0, i - context_lines)
        end   == Min(Len(lines), i + context_lines)
    IN  [line_number |-> i + 1,
         line_text |-> Strip(lines[i + 1]),
         matched_entities |-> MatchedEntities(patterns, lines[i + 1]),
         context |-> Join(PySlice(lines, start, end), <<"\n">>)]

\* The MatchResult built for the line with 0-based index i.
MatchResult(lines, i, patterns, context_lines) ==
    LET start == Max(0, i - context_lines)
        end   == Min(Len(lines), i + context_lines + 1)
    IN  [line_number |-> i + 1,
         line_text |-> Strip(lines[i + 1]),
         matched_entities |-> MatchedEntities(patterns, lines[i + 1]),
         context |-> Join(PySlice(lines, start, end), <<"\n">>)]

\* scan_document with any() in place of the length comparison of line 118.
ScanDocumentAnyEntity(text, entities, context_lines) ==
    IF entities = <<>> THEN <<>>
    ELSE LET lines    == Split(text, "\n")
             patterns == PatternKeys(entities)
             hits     == SelectSeq([k \in 1..Len(lines) |-> k - 1],
                             LAMBDA i : Len(MatchedEntities(patterns, lines[i + 1])) >= 1)
         IN  [k \in 1..Len(hits) |-> MatchResult(lines, hits[k], patterns, context_lines)]

\* scan_document
ScanDocument(text, entities, context_lines) ==
    IF entities = <<>> THEN <<>>
    ELSE LET lines    == Split(text, "\n")
             patterns == PatternKeys(entities)
             hits     == SelectSeq([k \in 1..Len(lines) |-> k - 1],
                             LAMBDA i : Len(MatchedEntities(patterns, lines[i + 1])) = Len(patterns))
         IN  [k \in 1..Len(hits) |-> MatchResult(lines, hits[k], patterns, context_lines)]

\* execute_counting_search with total_matches counted after the cut of line 179.
ExecuteCountingSearchCountsKept(query, text) ==
    LET entities == ExtractEntitiesFromQuery(query)
        matches  == ScanDocument(text, entities, DefaultContextLines)
    IN  [is_counting_query |-> TRUE,
         query |-> query,
         entities_searched |-> entities,
         total_matches |-> Len(PySlice(matches, 0, MatchCap)),
         matches |-> PySlice(matches, 0, MatchCap)]

\* execute_counting_search (the summary string, which no caller reads, is left out)
ExecuteCountingSearch(query, text) ==
    LET entities == ExtractEntitiesFromQuery(query)
        matches  == ScanDocument(text, entities, DefaultContextLines)
    IN  [is_counting_query |-> TRUE,
         query |-> query,
         entities_searched |-> entities,
         total_matches |-> Len(matches),
         matches |-> PySlice(matches, 0, MatchCap)]

\* should_use_pattern_matching without the is_counting test of line 219.
ShouldUsePatternMatchingEntitiesOnly(query) ==
    LET entities == ExtractEntitiesFromQuery(query)
    IN  [should_use |-> Len(entities) > 0, entities |-> entities]

\* should_use_pattern_matching
ShouldUsePatternMatching(query) ==
    LET is_counting == IsCountingQuery(query)
        entities    == ExtractEntitiesFromQuery(query)
    IN  [should_use |-> is_counting /\ Len(entities) > 0, entities |-> entities]

(***************************************************************************)
(* Model responses.  A response of the reasoning service is a sequence of  *)
(* chunks: "{" and "}" are the brace characters, "w" is any run of text    *)
(* without braces, and "m" is a well-formed list of JSON members whose     *)
(* keys and values are given by the field members.                         *)
(***************************************************************************)
MaxRespLen == 3

Chunk == {"{", "}", "w", "m"}

Shapes == UNION {[1..k -> Chunk] : k \in 0..MaxRespLen}

\* JSON values: a number of tenths, a string that is no number, or null.
Num(k) == [t |-> "num", n |-> k, s |-> ""]
Str(s) == [t |-> "str", n |-> 0, s |-> s]
Null == [t |-> "null", n |-> 0, s |-> ""]

EmptyDict == [k \in {} |-> Null]

\* json.loads: an object, or JSONDecodeError for any other text.
JsonLoads(str, members) ==
    IF str = <<"{", "}">> THEN [ok |-> TRUE, obj |-> EmptyDict]
    ELSE IF str = <<"{", "m", "}">> THEN [ok |-> TRUE, obj |-> members]
    ELSE [ok |-> FALSE, obj |-> EmptyDict]

\* The first four lines of each try block: find, rfind, slice, json.loads.
ExtractJson(resp) ==
    LET json_start == Find(resp.shape, "{")
        json_end   == RFind(resp.shape, "}") + 1
        json_str   == PySlice(resp.shape, json_start, json_end)
    IN  JsonLoads(json_str, resp.members)

\* dict.get(key, default)
Get(obj, key, default) == IF key \in DOMAIN obj THEN obj[key] ELSE default

\* float(v): ValueError for a string that is no number, TypeError for None.
ToFloat(v) == [ok |-> v.t = "num", value |-> IF v.t = "num" THEN Tenths(v.n) ELSE Zero]

(***************************************************************************)
(* Agent 3: the parsing half of the four evaluation steps.                 *)
(***************************************************************************)
DefaultConfidence == Num(8)
\* The except clause of _determine_final_answer answering the default of line 194.
FallbackConfidenceAsDefault == Tenths(8)
FallbackConfidence == Tenths(7)
\* A default score that passes the quality gate.
DefaultScoreAboveThreshold == Tenths(9)
DefaultScore == Tenths(7)
DefaultScoreValue == Num(7)

\* _determine_final_answer with result["final_answer"] and
\* result["confidence_score"] in place of the two result.get(...) calls: a
\* missing key raises KeyError, which the except clause answers.
DetermineFinalAnswerStrictKeys(resp, agent_2_out) ==
    LET parsed   == ExtractJson(resp)
        fallback == [final_answer |-> Str(agent_2_out),
                     confidence_score |-> FallbackConfidence,
                     error_logged |-> TRUE]
    IN  IF ~parsed.ok THEN fallback
        ELSE IF {"final_answer", "confidence_score"} \subseteq DOMAIN parsed.obj
        THEN LET confidence == ToFloat(parsed.obj["confidence_score"])
             IN  IF ~confidence.ok THEN fallback
                 ELSE [final_answer |-> parsed.obj["final_answer"],
                       confidence_score |-> confidence.value,
                       error_logged |-> FALSE]
        ELSE fallback

\* _determine_final_answer, from the response on (lines 187-202).
DetermineFinalAnswer(resp, agent_2_out) ==
    LET parsed   == ExtractJson(resp)
        fallback == [final_answer |-> Str(agent_2_out),
                     confidence_score |-> FallbackConfidence,
                     error_logged |-> TRUE]
    IN  IF ~parsed.ok THEN fallback
        ELSE LET confidence == ToFloat(Get(parsed.obj, "confidence_score", DefaultConfidence))
             IN  IF ~confidence.ok THEN fallback
                 ELSE [final_answer |-> Get(parsed.obj, "final_answer", Str(agent_2_out)),
                       confidence_score |-> confidence.value,
                       error_logged |-> FALSE]

\* The same try/except with an except clause that answers score 0.0.
EvaluateMetricZeroOnError(resp, unable, error) ==
    LET parsed   == ExtractJson(resp)
        fallback == [score |-> Tenths(0), justification |-> Str(error),
                     error_logged |-> TRUE]
    IN  IF ~parsed.ok THEN fallback
        ELSE LET score == ToFloat(Get(parsed.obj, "score", DefaultScoreValue))
             IN  IF ~score.ok THEN fallback
                 ELSE [score |-> score.value,
                       justification |-> Get(parsed.obj, "justification", Str(unable)),
                       error_logged |-> FALSE]

\* The try/except of _evaluate_groundedness, _evaluate_accuracy and
\* _evaluate_relevance, which differ in the two message strings only.
EvaluateMetric(resp, unable, error) ==
    LET parsed   == ExtractJson(resp)
        fallback == [score |-> DefaultScore, justification |-> Str(error),
                     error_logged |-> TRUE]
    IN  IF ~parsed.ok THEN fallback
        ELSE LET score == ToFloat(Get(parsed.obj, "score", DefaultScoreValue))
             IN  IF ~score.ok THEN fallback
                 ELSE [score |-> score.value,
                       justification |-> Get(parsed.obj, "justification", Str(unable)),
                       error_logged |-> FALSE]

EvaluateGroundedness(resp) ==
    EvaluateMetric(resp, "Unable to evaluate groundedness", "Groundedness evaluation error")

EvaluateAccuracy(resp) ==
    EvaluateMetric(resp, "Unable to evaluate accuracy", "Accuracy evaluation error")

EvaluateRelevance(resp) ==
    EvaluateMetric(resp, "Unable to evaluate relevance", "Relevance evaluation error")

(***************************************************************************)
(* Metrics (models/schemas.py) and the aggregation of _evaluate_answers.   *)
(***************************************************************************)
QualityThreshold == Tenths(8)

InUnitInterval(x) == FLe(Zero, x) /\ FLe(x, One)

\* Metrics without the ge/le constraints of its float fields.
MetricsValidSourcesOnly(m) == m.sources_used >= 0

\* pydantic's validation of the Field(...) constraints of Metrics.
MetricsValid(m) ==
    /\ InUnitInterval(m.confidence_score)
    /\ InUnitInterval(m.groundedness)
    /\ InUnitInterval(m.accuracy)
    /\ InUnitInterval(m.relevance)
    /\ m.sources_used >= 0
    /\ InUnitInterval(m.overall_score)

OverallScore(groundedness, accuracy, relevance) ==
    FDiv3(FAdd(FAdd(groundedness, accuracy), relevance))

NeedsReview(overall_score) == FLt(overall_score, QualityThreshold)

\* Lines 120-140 of _evaluate_answers: the values handed to Metrics(...).
CombineResults(confidence, g, gj, a, aj, r, rj, ndocs) ==
    LET overall_score == OverallScore(g, a, r)
    IN  [confidence_score |-> confidence,
         groundedness |-> g, groundedness_justification |-> gj,
         accuracy |-> a, accuracy_justification |-> aj,
         relevance |-> r, relevance_justification |-> rj,
         sources_used |-> ndocs,
         overall_score |-> overall_score,
         needs_review |-> NeedsReview(overall_score)]

(***************************************************************************)
(* Documents (tools/pdf_text_extractor.py, tools/ocr_processor.py).        *)
(*                                                                         *)
(* A path is the sequence of its components.  The file system is fixed:    *)
(* a regular PDF of two pages, a PDF of one page of three lines, a PDF of  *)
(* one page with more matching lines than the fast path keeps, and one     *)
(* path that names no file.                                                *)
(***************************************************************************)
PathA == <<"uploads", "a.pdf">>
PathGone == <<"uploads", "gone.pdf">>
PathScenario == <<"uploads", "scenario.pdf">>
PathLong == <<"uploads", "long.pdf">>

PageOne == <<"I", "s", "r", "a", "e", "l", " ", "c", "o", "m", "p", "l", "a", "i", "n", "t">>
PageTwo == <<"U", "S", "A", " ", "c", "o", "m", "p", "l", "a", "i", "n", "t">>
LineOnly == <<"I", "s", "r", "a", "e", "l", " ", "o", "n", "l", "y">>

ScenarioText ==
    <<"I", "s", "r", "a", "e", "l", " ", "c", "o", "m", "p", "l", "a", "i", "n", "t", " ", "l", "i", "n", "e", " ", "o", "n", "e", "\n",
      "U", "S", "A", " ", "c", "o", "m", "p", "l", "a", "i", "n", "t", " ", "l", "i", "n", "e", " ", "t", "w", "o", "\n",
      "I", "s", "r", "a", "e", "l", " ", "a", "n", "d", " ", "U", "S", "A", " ", "b", "o", "t", "h", " ", "h", "e", "r", "e">>

\* One line without Israel, then one line more than MatchCap that name Israel.
LongText ==
    Join([i \in 1..(MatchCap + 2) |-> IF i = 1 THEN PageTwo ELSE LineOnly], <<"\n">>)

FileAt(path) ==
    CASE path = PathA -> [exists |-> TRUE, images |-> FALSE, pages |-> <<PageOne, PageTwo>>]
      [] path = PathScenario -> [exists |-> TRUE, images |-> FALSE, pages |-> <<ScenarioText>>]
      [] path = PathLong -> [exists |-> TRUE, images |-> FALSE, pages |-> <<LongText>>]
      [] OTHER -> [exists |-> FALSE, images |-> FALSE, pages |-> <<>>]

NoDoc == [file_path |-> <<>>, file_name |-> "", total_pages |-> 0, pages |-> <<>>,
          full_text |-> <<>>, extraction_method |-> ""]

\* pdf_path.split('\\')[-1].split('/')[-1]
FileName(path) == path[Len(path)]

\* is_pdf_scanned: any exception of fitz, a missing file included, is caught and
\* answered False.
IsPdfScanned(path) ==
    LET f == FileAt(path)
    IN  IF ~f.exists THEN FALSE
        ELSE IF Len(f.pages) = 0 THEN FALSE
        ELSE Len(Strip(f.pages[1])) < 10

Pages(texts) == [i \in 1..Len(texts) |-> [page_num |-> i, text |-> texts[i]]]

OcrPlaceholder == <<"[", "O", "C", "R", "]">>

\* process_scanned_pdf: every exception is re-raised as a plain Exception.
ProcessScannedPdf(path) ==
    LET f     == FileAt(path)
        texts == [i \in 1..Len(f.pages) |->
                     IF Len(Strip(f.pages[i])) < 10 /\ f.images /\ f.pages[i] = <<>>
                     THEN OcrPlaceholder ELSE f.pages[i]]
    IN  IF ~f.exists THEN [raised |-> "Exception", doc |-> NoDoc]
        ELSE [raised |-> "none",
              doc |-> [file_path |-> path, file_name |-> FileName(path),
                       total_pages |-> Len(texts), pages |-> Pages(texts),
                       full_text |-> Join(texts, <<"\n">>), extraction_method |-> "ocr"]]

\* extract_with_pdfplumber: pdfplumber.open raises FileNotFoundError for a missing
\* file inside the try block, whose except clause re-raises a plain Exception.
ExtractWithPdfplumber(path) ==
    LET f == FileAt(path)
    IN  IF ~f.exists THEN [raised |-> "Exception", doc |-> NoDoc]
        ELSE [raised |-> "none",
              doc |-> [file_path |-> path, file_name |-> FileName(path),
                       total_pages |-> Len(f.pages), pages |-> Pages(f.pages),
                       full_text |-> Join(f.pages, <<"\n">>),
                       extraction_method |-> "pdfplumber"]]

\* extract_text_from_pdf
ExtractTextFromPdf(path) ==
    IF IsPdfScanned(path) THEN ProcessScannedPdf(path) ELSE ExtractWithPdfplumber(path)

\* extract_text_from_multiple_pdfs: the first file that raises ends the loop;
\* FileNotFoundError is re-raised as FileNotFoundError, anything else as Exception.
RECURSIVE ExtractTextFromMultiplePdfs(_)
ExtractTextFromMultiplePdfs(pdf_paths) ==
    IF pdf_paths = <<>> THEN [raised |-> "none", docs |-> <<>>]
    ELSE LET first == ExtractTextFromPdf(pdf_paths[1])
         IN  IF first.raised = "FileNotFoundError"
             THEN [raised |-> "FileNotFoundError", docs |-> <<>>]
             ELSE IF first.raised # "none"
             THEN [raised |-> "Exception", docs |-> <<>>]
             ELSE LET rest == ExtractTextFromMultiplePdfs(Tail(pdf_paths))
                  IN  IF rest.raised # "none" THEN rest
                      ELSE [raised |-> "none", docs |-> <<first.doc>> \o rest.docs]

(***************************************************************************)
(* The fast path of process_documents (main.py, lines 55-85).              *)
(***************************************************************************)
ContextCap == 50
RuleWidth == 80

\* str(n) for n >= 0
RECURSIVE ToStr(_)
ToStr(n) == IF n < 10 THEN <<Digits[n + 1]>> ELSE ToStr(n \div 10) \o <<Digits[(n % 10) + 1]>>

CondensedHeader ==
    <<"R", "e", "l", "e", "v", "a", "n", "t", " ", "s", "e", "c", "t", "i", "o", "n",
      "s", " ", "e", "x", "t", "r", "a", "c", "t", "e", "d", " ", "b", "y", " ", "p",
      "a", "t", "t", "e", "r", "n", " ", "m", "a", "t", "c", "h", "i", "n", "g", ":",
      "\n", "\n">>

Rule == [i \in 1..RuleWidth |-> "-"]

\* The text of lines 73-75 labelled with the number of the match in both places.
MatchSectionByIndex(i, match) ==
    <<"M", "a", "t", "c", "h", " ">> \o ToStr(i) \o <<" ", "(", "L", "i", "n", "e", " ">> \o ToStr(i)
        \o <<")", ":", "\n">> \o match.context \o <<"\n">> \o Rule \o <<"\n", "\n">>

\* The text appended for match number i of the loop at lines 72-75.
MatchSection(i, match) ==
    <<"M", "a", "t", "c", "h", " ">> \o ToStr(i) \o <<" ", "(", "L", "i", "n", "e", " ">> \o ToStr(match.line_number)
        \o <<")", ":", "\n">> \o match.context \o <<"\n">> \o Rule \o <<"\n", "\n">>

RECURSIVE MatchSections(_, _)
MatchSections(matches, i) ==
    IF i > Len(matches) THEN <<>>
    ELSE MatchSection(i, matches[i]) \o MatchSections(matches, i + 1)

CondensedContext(pattern_result) ==
    CondensedHeader \o MatchSections(PySlice(pattern_result.matches, 0, ContextCap), 1)

\* Lines 59-75: the condensed context built from the pattern matches.
BuildCondensedContext(prompt, documents) ==
    LET full_text == Join([i \in 1..Len(documents) |-> documents[i].full_text], <<"\n">>)
        pattern_result == ExecuteCountingSearch(prompt, full_text)
    IN  CondensedContext(pattern_result)

\* condensed_doc (lines 79-85)
CondensedDoc(file_paths, context) ==
    <<[file_path |-> IF Len(file_paths) > 0 THEN file_paths[1] ELSE <<"extracted_sections">>,
       file_name |-> "Pattern Matched Sections",
       total_pages |-> 1,
       pages |-> <<[page_num |-> 1, text |-> context]>>,
       full_text |-> context]>>

\* The documents handed to the three agents: condensed_doc in the branch of line 55,
\* document_texts in the branch of line 104.
AgentDocuments(use_pattern, file_paths, context, documents) ==
    IF use_pattern THEN CondensedDoc(file_paths, context) ELSE documents

(***************************************************************************)
(* Agent 3: evidence extraction (_extract_sections_used).                  *)
(***************************************************************************)
SectionCap == 5
SnippetLen == 200
MinWordLen == 3

\* str.split(): the maximal runs of non-whitespace characters.
RECURSIVE SplitWs(_)
SplitWs(s) ==
    LET t == LStrip(s)
    IN  IF t = <<>> THEN <<>>
        ELSE IF \E i \in 1..Len(t) : IsSpace(t[i])
        THEN LET i == CHOOSE k \in 1..Len(t) : IsSpace(t[k]) /\ \A m \in 1..(k - 1) : ~IsSpace(t[m])
             IN  <<SubSeq(t, 1, i - 1)>> \o SplitWs(SubSeq(t, i, Len(t)))
        ELSE <<t>>

\* needle in haystack
Contains(haystack, needle) ==
    \E i \in 1..(Len(haystack) - Len(needle) + 1) :
        \A k \in 1..Len(needle) : haystack[i + k - 1] = needle[k]

\* The relevance check of line 443.
PageQualifies(page, prompt) ==
    \E page_text \in {Lower(page.text)} :
    \E words \in {SplitWs(Lower(prompt))} :
    \E k \in 1..Len(words) :
        Len(words[k]) > MinWordLen /\ Contains(page_text, words[k])

Ellipsis == <<".", ".", ".">>

\* All (document, page) pairs in scan order.
RECURSIVE AllPages(_)
AllPages(docs) ==
    IF docs = <<>> THEN <<>>
    ELSE [k \in 1..Len(docs[1].pages) |-> [file |-> docs[1].file_name, page |-> docs[1].pages[k]]]
         \o AllPages(Tail(docs))

\* The two nested loops without the two break statements.
RECURSIVE ScanPagesNoBreak(_, _, _)
ScanPagesNoBreak(pages, prompt, sections) ==
    IF pages = <<>> THEN [sections |-> sections, unscanned |-> pages]
    ELSE LET p       == pages[1]
             snippet == Strip(PySlice(p.page.text, 0, SnippetLen))
         IN  IF PageQualifies(p.page, prompt) /\ snippet # <<>>
             THEN ScanPagesNoBreak(Tail(pages), prompt,
                      Append(sections, [file |-> p.file, page |-> p.page.page_num,
                                        text_snippet |-> snippet \o Ellipsis]))
             ELSE ScanPagesNoBreak(Tail(pages), prompt, sections)

\* The two nested loops taking the pages last to first.
RECURSIVE ScanPagesLastFirst(_, _, _)
ScanPagesLastFirst(pages, prompt, sections) ==
    IF pages = <<>> \/ Len(sections) >= SectionCap
    THEN [sections |-> sections, unscanned |-> pages]
    ELSE LET p       == pages[Len(pages)]
             rest    == SubSeq(pages, 1, Len(pages) - 1)
             snippet == Strip(PySlice(p.page.text, 0, SnippetLen))
         IN  IF PageQualifies(p.page, prompt) /\ snippet # <<>>
             THEN ScanPagesLastFirst(rest, prompt,
                      Append(sections, [file |-> p.file, page |-> p.page.page_num,
                                        text_snippet |-> snippet \o Ellipsis]))
             ELSE ScanPagesLastFirst(rest, prompt, sections)

\* The two nested loops: a qualifying page with a non-empty snippet adds a
\* section, and both loops end once SectionCap sections are collected.  The
\* result carries the pages the loops never reached.
RECURSIVE ScanPages(_, _, _)
ScanPages(pages, prompt, sections) ==
    IF pages = <<>> \/ Len(sections) >= SectionCap
    THEN [sections |-> sections, unscanned |-> pages]
    ELSE LET p       == pages[1]
             snippet == Strip(PySlice(p.page.text, 0, SnippetLen))
         IN  IF PageQualifies(p.page, prompt) /\ snippet # <<>>
             THEN ScanPages(Tail(pages), prompt,
                      Append(sections, [file |-> p.file, page |-> p.page.page_num,
                                        text_snippet |-> snippet \o Ellipsis]))
             ELSE ScanPages(Tail(pages), prompt, sections)

\* _extract_sections_used with the words of the final answer in the relevance check.
ExtractSectionsUsedByAnswer(final_answer, documents, prompt) ==
    IF final_answer.t # "str" /\ AllPages(documents) # <<>>
    THEN [raised |-> "AttributeError", sections |-> <<>>, unscanned |-> <<>>]
    ELSE [raised |-> "none"] @@ ScanPages(AllPages(documents), final_answer.s, <<>>)

\* _extract_sections_used; final_answer.lower() runs once per page and raises
\* AttributeError when the final answer is no string.
ExtractSectionsUsed(final_answer, documents, prompt) ==
    IF final_answer.t # "str" /\ AllPages(documents) # <<>>
    THEN [raised |-> "AttributeError", sections |-> <<>>, unscanned |-> <<>>]
    ELSE [raised |-> "none"] @@ ScanPages(AllPages(documents), prompt, <<>>)

(***************************************************************************)
(* process_documents (main.py): one request from extraction to response.   *)
(* Every reasoning-service call is a blocking boundary: pc names the call  *)
(* the request is waiting for, and one action models everything the code   *)
(* does from the return of that call up to the next call.                  *)
(***************************************************************************)
MaxFiles == 2

Paths == {PathA, PathGone}

PromptCounting ==
    <<"H", "o", "w", " ", "m", "a", "n", "y", " ", "c", "o", "m", "p", "l", "a", "i", "n", "t", "s", " ", "a", "r", "e", " ", "f", "r", "o", "m", " ", "I", "s", "r", "a", "e", "l", "?">>
PromptPlain ==
    <<"W", "h", "a", "t", " ", "c", "o", "m", "p", "l", "a", "i", "n", "t", "s", " ", "c", "a", "m", "e", " ", "f", "r", "o", "m", " ", "I", "s", "r", "a", "e", "l">>

PromptCount ==
    <<"C", "o", "u", "n", "t", " ", "I", "s", "r", "a", "e", "l", " ", "c", "o", "m", "p", "l", "a", "i", "n", "t", "s">>

Prompts == {PromptCounting, PromptPlain, PromptCount}

\* What the reasoning service may answer to the draft and condense calls.
DraftTexts == {"detailed answer"}
CondensedTexts == {"short answer"}

\* What it may answer to the four structured calls of Agent 3.
ConfidenceValues == {Num(9), Num(12), Str("high")}
FinalAnswerValues == {Str("merged answer")}
ScoreValues == {Num(9), Num(12), Str("high")}
JustificationValues == {Str("because"), Null}
DefaultJustification == Str("because")

Dicts(key1, values1, key2, values2) ==
    {EmptyDict}
    \cup {(key1 :> v1) : v1 \in values1}
    \cup {(key2 :> v2) : v2 \in values2}
    \cup {(key1 :> v1) @@ (key2 :> v2) : v1 \in values1, v2 \in values2}

FinalDicts == Dicts("final_answer", FinalAnswerValues, "confidence_score", ConfidenceValues)
\* A metric answer varies its score under one justification, and its
\* justification under one score.
MetricDicts ==
    {d \in Dicts("score", ScoreValues, "justification", JustificationValues) :
        \/ "justification" \in DOMAIN d /\ d["justification"] = DefaultJustification
        \/ "score" \in DOMAIN d /\ d["score"] = Num(9)
        \/ d = EmptyDict}

Stages == <<"agent_1", "agent_2", "final_answer", "groundedness", "accuracy", "relevance">>

NoFinal == [final_answer |-> Null, confidence_score |-> Zero, error_logged |-> FALSE]
NoScore == [score |-> Zero, justification |-> Null, error_logged |-> FALSE]
NoJson == [ok |-> FALSE, obj |-> EmptyDict]
NoMetrics == [confidence_score |-> Zero,
              groundedness |-> Zero, groundedness_justification |-> Null,
              accuracy |-> Zero, accuracy_justification |-> Null,
              relevance |-> Zero, relevance_justification |-> Null,
              sources_used |-> 0, overall_score |-> Zero, needs_review |-> FALSE]
NoResponse == [kind |-> "none", agent_1_output |-> "", agent_2_output |-> "",
               final_answer |-> Null, metrics |-> NoMetrics, sections_used |-> <<>>]
NoHttp == [status |-> 0, detail |-> ""]

\* The JSON text of a response: the slice from the first "{" to the last "}".
JsonText(shape) == PySlice(shape, Find(shape, "{"), RFind(shape, "}") + 1)

\* The responses the service may give to a structured call.  The members of a
\* response are read only when its JSON text is an object with members, so every
\* other response is drawn once, with no members.
Responses(dicts) ==
    {[shape |-> sh, members |-> d] :
        sh \in {x \in Shapes : JsonText(x) = <<"{", "m", "}">>}, d \in dicts}
    \cup {[shape |-> sh, members |-> EmptyDict] :
        sh \in {x \in Shapes : JsonText(x) # <<"{", "m", "}">>}}

FinalResponses == Responses(FinalDicts)
MetricResponses == Responses(MetricDicts)

\* What the three metric methods make of the responses: the parsed JSON and the
\* dict returned, for every response of MetricResponses.
GroundednessOutcomes ==
    {[json |-> ExtractJson(resp), result |-> EvaluateGroundedness(resp)] : resp \in MetricResponses}
AccuracyOutcomes ==
    {[json |-> ExtractJson(resp), result |-> EvaluateAccuracy(resp)] : resp \in MetricResponses}
RelevanceOutcomes ==
    {[json |-> ExtractJson(resp), result |-> EvaluateRelevance(resp)] : resp \in MetricResponses}

FileLists == UNION {[1..k -> Paths] : k \in 0..MaxFiles}

NoScores == [confidence |-> 0, groundedness |-> 0, accuracy |-> 0, relevance |-> 0,
             sources |-> 0]
NoBuilt == [kind |-> "idle", metrics |-> NoMetrics]
NoCall ==
    [op |-> "idle", query |-> <<>>, files |-> <<>>, text |-> <<>>, entities |-> <<>>,
     context_lines |-> 0]
NoResult == [op |-> "idle", should_use |-> FALSE, entities |-> <<>>,
             documents |-> <<>>, total_matches |-> 0, matches |-> <<>>]

NoExtractCall == [final_answer |-> Null, documents |-> <<>>, prompt |-> <<>>]
NoExtractResult == [op |-> "idle", raised |-> "none", sections |-> <<>>, unscanned |-> <<>>]

\* The module-level instance of PatternMatcher, as __init__ leaves it.
PatternMatcherInstance == [compiled_patterns |-> compiled_patterns]

IdleMetrics == scores = NoScores /\ built = NoBuilt
IdleMatcher == pm_in = NoCall /\ pm_out = NoResult
IdleExtract == extract_in = NoExtractCall /\ extract_out = NoExtractResult
IdlePair == requests = <<>>
IdleBackend == backend = [pc |-> "idle"]
IdleAnalyzer == analyzer = [pc |-> "idle"]

\* What a reasoning call is given, beside the prompt of the request.
NoInput == [stage |-> "", documents |-> <<>>, draft |-> "", condensed |-> "", answer |-> Null]

\* agent_1.process(documents, prompt)
DraftInput(documents) == [NoInput EXCEPT !.stage = "agent_1", !.documents = documents]

\* agent_2.process called without the draft.
CondenseInputNoDraft(agent_1_out) == [NoInput EXCEPT !.stage = "agent_2"]

\* agent_2.process(agent_1_output, prompt)
CondenseInput(agent_1_out) == [NoInput EXCEPT !.stage = "agent_2", !.draft = agent_1_out]

\* _determine_final_answer(agent_1_output, agent_2_output, prompt)
FinalAnswerInput(agent_1_out, agent_2_out) ==
    [NoInput EXCEPT !.stage = "final_answer", !.draft = agent_1_out, !.condensed = agent_2_out]

\* Steps 2 to 4 given the draft as the answer to score.
EvaluationInputDraft(stage, result, documents, agent_1_out) ==
    IF stage = "relevance"
    THEN [NoInput EXCEPT !.stage = stage, !.answer = Str(agent_1_out)]
    ELSE [NoInput EXCEPT !.stage = stage, !.answer = Str(agent_1_out),
                         !.documents = documents, !.draft = agent_1_out]

\* Steps 2 to 4 of _evaluate_answers: each is given final_answer_result["final_answer"];
\* groundedness and accuracy are also given the document context and the draft.
EvaluationInput(stage, result, documents, agent_1_out) ==
    IF stage = "relevance"
    THEN [NoInput EXCEPT !.stage = stage, !.answer = result.final_answer]
    ELSE [NoInput EXCEPT !.stage = stage, !.answer = result.final_answer,
                         !.documents = documents, !.draft = agent_1_out]

\* The state of a request that has not extracted anything yet.
NewRequest(file_paths, prompt) ==
    /\ runtime_json = [file_paths |-> file_paths, prompt |-> prompt]
    /\ document_texts = <<>>
    /\ should_use_pattern = FALSE
    /\ condensed_context = <<>>
    /\ agent_1_output = ""
    /\ agent_2_output = ""
    /\ final_answer_result = NoFinal
    /\ groundedness_result = NoScore
    /\ accuracy_result = NoScore
    /\ json_result = [s \in {"final_answer", "groundedness", "accuracy", "relevance"} |-> NoJson]
    /\ calls = <<>>
    /\ sent = <<>>
    /\ http = NoHttp
    /\ response = NoResponse

Init ==
    /\ pc = "start"
    /\ \E fp \in FileLists, p \in Prompts : NewRequest(fp, p)
    /\ IdleMetrics
    /\ IdleMatcher
    /\ IdleExtract
    /\ IdlePair
    /\ pattern_matcher = PatternMatcherInstance
    /\ IdleBackend
    /\ IdleAnalyzer

\* The outcome of the last call issued is recorded; the next call is issued.
Mark(cs, outcome) == [i \in 1..Len(cs) |-> IF i = Len(cs) THEN outcome ELSE cs[i]]
Issue(cs) == Append(Mark(cs, "returned"), "pending")

\* An exception leaves process_documents through one of its two except clauses
\* (lines 157-164); the locals of the request are gone.  json_result, calls and
\* sent keep what the request parsed and called before it ended.
Raise(status, detail) ==
    /\ pc' = "error"
    /\ http' = [status |-> status, detail |-> detail]
    /\ response' = NoResponse
    /\ document_texts' = <<>>
    /\ should_use_pattern' = FALSE
    /\ condensed_context' = <<>>
    /\ agent_1_output' = ""
    /\ agent_2_output' = ""
    /\ final_answer_result' = NoFinal
    /\ groundedness_result' = NoScore
    /\ accuracy_result' = NoScore
    /\ UNCHANGED <<runtime_json, sent, scores, built, pm_in, pm_out, extract_in, extract_out, requests, pattern_matcher, backend, analyzer>>

\* Lines 41-109: extraction, routing, and the call of Agent 1.
ExtractAndRoute ==
    /\ pc = "start"
    /\ LET ex == ExtractTextFromMultiplePdfs(runtime_json.file_paths)
       IN  IF ex.raised = "FileNotFoundError"
           THEN Raise(404, "PDF file not found") /\ UNCHANGED <<calls, json_result>>
           ELSE IF ex.raised # "none"
           THEN Raise(500, "Error processing PDF") /\ UNCHANGED <<calls, json_result>>
           ELSE LET route == ShouldUsePatternMatching(runtime_json.prompt)
                IN  /\ document_texts' = ex.docs
                    /\ should_use_pattern' = route.should_use
                    /\ condensed_context' =
                           IF route.should_use
                           THEN BuildCondensedContext(runtime_json.prompt, ex.docs)
                           ELSE <<>>
                    /\ pc' = "agent_1"
                    /\ calls' = <<"pending">>
                    /\ \E context \in {condensed_context'} :
                           sent' = <<DraftInput(AgentDocuments(route.should_use,
                                         runtime_json.file_paths, context, ex.docs))>>
                    /\ UNCHANGED <<runtime_json, agent_1_output, agent_2_output,
                                   final_answer_result, groundedness_result,
                                   accuracy_result, json_result, http, response,
                                   scores, built, pm_in, pm_out, extract_in, extract_out, requests, pattern_matcher, backend, analyzer>>

\* Agent 1 catching the exception of its call and going on with an empty draft.
ReasoningCallFailsDraftRecovered ==
    /\ pc = "agent_1"
    /\ agent_1_output' = ""
    /\ pc' = "agent_2"
    /\ calls' = Append(Mark(calls, "failed"), "pending")
    /\ sent' = Append(sent, CondenseInput(""))
    /\ UNCHANGED <<runtime_json, document_texts, should_use_pattern, condensed_context,
                   agent_2_output, final_answer_result, groundedness_result,
                   accuracy_result, json_result, http, response, scores, built,
                   pm_in, pm_out, extract_in, extract_out, requests, pattern_matcher, backend, analyzer>>

\* process_documents catching the exception of a reasoning call and starting
\* over at the call of Agent 1.
ReasoningCallFailsStartsOver ==
    /\ pc \in Range(Stages)
    /\ pc' = "agent_1"
    /\ calls' = <<"pending">>
    /\ sent' = <<sent[1]>>
    /\ agent_1_output' = ""
    /\ agent_2_output' = ""
    /\ final_answer_result' = NoFinal
    /\ groundedness_result' = NoScore
    /\ accuracy_result' = NoScore
    /\ json_result' = [s \in DOMAIN json_result |-> NoJson]
    /\ UNCHANGED <<runtime_json, document_texts, should_use_pattern, condensed_context,
                   http, response, scores, built, pm_in, pm_out, extract_in, extract_out,
                   requests, pattern_matcher, backend, analyzer>>

\* OpenAIClient.chat_completion raises: no agent catches it, process_documents
\* answers 500.
ReasoningCallFails ==
    /\ pc \in Range(Stages)
    /\ Raise(500, "OpenAI API error")
    /\ calls' = Mark(calls, "failed")
    /\ UNCHANGED json_result

\* Agent1Processor.process returns the response text.
Agent1Returns ==
    /\ pc = "agent_1"
    /\ \E text \in DraftTexts :
        /\ agent_1_output' = text
        /\ sent' = Append(sent, CondenseInput(text))
    /\ pc' = "agent_2"
    /\ calls' = Issue(calls)
    /\ UNCHANGED <<runtime_json, document_texts, should_use_pattern, condensed_context, agent_2_output,
                   final_answer_result, groundedness_result, accuracy_result,
                   json_result, http, response, scores, built, pm_in, pm_out, extract_in, extract_out, requests, pattern_matcher, backend, analyzer>>

\* Agent2Summarizer.process returns the response text.
Agent2Returns ==
    /\ pc = "agent_2"
    /\ \E text \in CondensedTexts :
        /\ agent_2_output' = text
        /\ sent' = Append(sent, FinalAnswerInput(agent_1_output, text))
    /\ pc' = "final_answer"
    /\ calls' = Issue(calls)
    /\ UNCHANGED <<runtime_json, document_texts, should_use_pattern, condensed_context, agent_1_output,
                   final_answer_result, groundedness_result, accuracy_result,
                   json_result, http, response, scores, built, pm_in, pm_out, extract_in, extract_out, requests, pattern_matcher, backend, analyzer>>

\* Step 1 of _evaluate_answers, up to the groundedness call.
FinalAnswerReturns ==
    /\ pc = "final_answer"
    /\ \E resp \in FinalResponses :
        /\ final_answer_result' = DetermineFinalAnswer(resp, agent_2_output)
        /\ json_result' = [json_result EXCEPT !.final_answer = ExtractJson(resp)]
        /\ sent' = Append(sent, EvaluationInput("groundedness", final_answer_result',
                                    AgentDocuments(should_use_pattern, runtime_json.file_paths,
                                                   condensed_context, document_texts),
                                    agent_1_output))
    /\ pc' = "groundedness"
    /\ calls' = Issue(calls)
    /\ UNCHANGED <<runtime_json, document_texts, should_use_pattern, condensed_context, agent_1_output,
                   agent_2_output, groundedness_result, accuracy_result,
                   http, response, scores, built, pm_in, pm_out, extract_in, extract_out, requests, pattern_matcher, backend, analyzer>>

\* Step 2, up to the accuracy call.  The preview print slices the justification,
\* which raises TypeError when the JSON value is no string.
GroundednessReturns ==
    /\ pc = "groundedness"
    /\ \E out \in GroundednessOutcomes :
        LET result == out.result
        IN  IF result.justification.t # "str"
            THEN /\ Raise(500, "TypeError")
                 /\ calls' = Mark(calls, "returned")
                 /\ json_result' = [json_result EXCEPT !.groundedness = out.json]
            ELSE /\ groundedness_result' = result
                 /\ json_result' = [json_result EXCEPT !.groundedness = out.json]
                 /\ pc' = "accuracy"
                 /\ calls' = Issue(calls)
                 /\ sent' = Append(sent, EvaluationInput("accuracy", final_answer_result,
                                    AgentDocuments(should_use_pattern, runtime_json.file_paths,
                                                   condensed_context, document_texts),
                                    agent_1_output))
                 /\ UNCHANGED <<runtime_json, document_texts, should_use_pattern, condensed_context, agent_1_output,
                                agent_2_output, final_answer_result, accuracy_result,
                                http, response, scores, built, pm_in, pm_out, extract_in, extract_out, requests, pattern_matcher, backend, analyzer>>

\* Step 3, up to the relevance call.
AccuracyReturns ==
    /\ pc = "accuracy"
    /\ \E out \in AccuracyOutcomes :
        LET result == out.result
        IN  IF result.justification.t # "str"
            THEN /\ Raise(500, "TypeError")
                 /\ calls' = Mark(calls, "returned")
                 /\ json_result' = [json_result EXCEPT !.accuracy = out.json]
            ELSE /\ accuracy_result' = result
                 /\ json_result' = [json_result EXCEPT !.accuracy = out.json]
                 /\ pc' = "relevance"
                 /\ calls' = Issue(calls)
                 /\ sent' = Append(sent, EvaluationInput("relevance", final_answer_result,
                                    AgentDocuments(should_use_pattern, runtime_json.file_paths,
                                                   condensed_context, document_texts),
                                    agent_1_output))
                 /\ UNCHANGED <<runtime_json, document_texts, should_use_pattern, condensed_context, agent_1_output,
                                agent_2_output, final_answer_result, groundedness_result,
                                http, response, scores, built, pm_in, pm_out, extract_in, extract_out, requests, pattern_matcher, backend, analyzer>>

\* Step 4 and everything after it: the aggregation, Metrics(...), the evidence
\* extraction of Agent3Evaluator.process and AIResponse(...) in process_documents.
RelevanceReturns ==
    /\ pc = "relevance"
    /\ \E docs \in {AgentDocuments(should_use_pattern, runtime_json.file_paths,
                                     condensed_context, document_texts)} :
       \E sections \in {ExtractSectionsUsed(final_answer_result.final_answer, docs,
                                            runtime_json.prompt)} :
       \E out \in RelevanceOutcomes :
        LET result   == out.result
            metrics  == CombineResults(final_answer_result.confidence_score,
                            groundedness_result.score, groundedness_result.justification,
                            accuracy_result.score, accuracy_result.justification,
                            result.score, result.justification,
                            Len(docs))
        IN  /\ json_result' = [json_result EXCEPT !.relevance = out.json]
            /\ calls' = Mark(calls, "returned")
            /\ IF result.justification.t # "str"
               THEN Raise(500, "TypeError")
               ELSE IF ~MetricsValid(metrics)
               THEN Raise(500, "ValidationError")
               ELSE IF sections.raised # "none"
               THEN Raise(500, sections.raised)
               ELSE IF final_answer_result.final_answer.t # "str"
               THEN Raise(500, "ValidationError")
               ELSE /\ response' = [kind |-> "AIResponse",
                                    agent_1_output |-> agent_1_output,
                                    agent_2_output |-> agent_2_output,
                                    final_answer |-> final_answer_result.final_answer,
                                    metrics |-> metrics,
                                    sections_used |-> sections.sections]
                    /\ pc' = "done"
                    /\ http' = [status |-> 200, detail |-> ""]
                    /\ UNCHANGED <<runtime_json, document_texts, should_use_pattern,
                                   condensed_context, agent_1_output, agent_2_output,
                                   final_answer_result, groundedness_result,
                                   accuracy_result, sent, scores, built, pm_in, pm_out, extract_in, extract_out, requests, pattern_matcher, backend, analyzer>>

Next ==
    \/ ExtractAndRoute
    \/ ReasoningCallFails
    \/ Agent1Returns
    \/ Agent2Returns
    \/ FinalAnswerReturns
    \/ GroundednessReturns
    \/ AccuracyReturns
    \/ RelevanceReturns

Spec == Init /\ [][Next]_vars

\* The same request when every call of the extractor and of the reasoning
\* service returns or fails in the end.  A request that has not ended is
\* blocked in one call (pc names it), and the call coming back, with a value or
\* with an exception, is the only thing that takes the request out of pc.
CallComesBack ==
    /\ pc \notin {"done", "error"}
    /\ pc' \in ({"start", "done", "error"} \cup Range(Stages)) \ {pc}

SpecLive == Init /\ [][Next]_vars /\ WF_pc(CallComesBack)

(***************************************************************************)
(* The aggregation of _evaluate_answers (lines 120-140) on its own: the    *)
(* four results are doubles that are whole tenths, valid or not.           *)
(***************************************************************************)
MaxScoreTenths == 11

ScoreGrid == (0 - 1)..MaxScoreTenths
ConfidenceGrid == {7, 8}
SourceCounts == {1}

InitMetrics ==
    /\ pc = "aggregate"
    /\ NewRequest(<<>>, <<>>)
    /\ scores \in [confidence : ConfidenceGrid, groundedness : ScoreGrid,
                   accuracy : ScoreGrid, relevance : ScoreGrid, sources : SourceCounts]
    /\ built = NoBuilt
    /\ IdleMatcher
    /\ IdleExtract
    /\ IdlePair
    /\ pattern_matcher = PatternMatcherInstance
    /\ IdleBackend
    /\ IdleAnalyzer

\* Lines 120-140: the mean, the threshold and Metrics(...), which validates.
Aggregate ==
    /\ pc = "aggregate"
    /\ LET metrics == CombineResults(Tenths(scores.confidence),
                          Tenths(scores.groundedness), Str("because"),
                          Tenths(scores.accuracy), Str("because"),
                          Tenths(scores.relevance), Str("because"),
                          scores.sources)
       IN  built' = IF MetricsValid(metrics)
                    THEN [kind |-> "Metrics", metrics |-> metrics]
                    ELSE [kind |-> "ValidationError", metrics |-> NoMetrics]
    /\ pc' = "aggregated"
    /\ UNCHANGED <<runtime_json, document_texts, should_use_pattern, condensed_context,
                   agent_1_output, agent_2_output, final_answer_result,
                   groundedness_result, accuracy_result, json_result, calls, http,
                   response, scores, pm_in, pm_out, sent, extract_in, extract_out, requests, pattern_matcher, backend, analyzer>>

NextMetrics == Aggregate

SpecMetrics == InitMetrics /\ [][NextMetrics]_vars

(***************************************************************************)
(* PatternMatcher on its own: one call of scan_document, or the routing    *)
(* decision of process_documents (lines 52-104) for one prompt over the    *)
(* documents of PathA.                                                     *)
(***************************************************************************)
MaxQueryWords == 3
MaxLines == 3
MaxContextLines == 2

QueryWords ==
    {<<"h", "o", "w">>, <<"m", "a", "n", "y">>, <<"t", "o", "t", "a", "l">>,
     <<"t", "o", "t", "a", "l", "s">>, <<"I", "s", "r", "a", "e", "l">>,
     <<"a", "m", "e", "r", "i", "c", "a", "n">>, <<"w", "h", "a", "t">>}

Queries == {Join(ws, <<" ">>) : ws \in UNION {[1..k -> QueryWords] : k \in 0..MaxQueryWords}}

ScanLines == {PageOne, PageTwo, LineOnly}

Texts == {Join(ls, <<"\n">>) : ls \in UNION {[1..k -> ScanLines] : k \in 0..MaxLines}}

ScanEntities == {"israel", "complaint", "usa", "zzz"}
EntityLists ==
    {<<>>} \cup {<<a>> : a \in ScanEntities} \cup {<<a, b>> : a \in ScanEntities, b \in ScanEntities}

RouteDocuments == ExtractTextFromMultiplePdfs(<<PathA>>).docs
RouteFiles == {<<PathA>>, <<PathScenario>>, <<PathLong>>}
RouteQueries == Queries \cup {PromptCounting}

\* What process_documents has after line 48 for each of the file lists, and the
\* text of line 59.
Extracted == [fp \in RouteFiles |-> ExtractTextFromMultiplePdfs(fp).docs]
FullText(documents) ==
    Join([i \in 1..Len(documents) |-> documents[i].full_text], <<"\n">>)

\* The texts of execute_counting_search: 52 lines of which 51 name Israel, the
\* three lines of the scenario, and the empty text.
CountTexts == {LongText, ScenarioText, <<>>}

\* The queries of execute_counting_search: up to MaxCountQueryWords words.
MaxCountQueryWords == 2
CountQueries ==
    {Join(ws, <<" ">>) : ws \in UNION {[1..k -> QueryWords] : k \in 0..MaxCountQueryWords}}
    \cup {PromptCounting}

InitMatch ==
    /\ pc = "call"
    /\ NewRequest(<<>>, <<>>)
    /\ IdleMetrics
    /\ pm_in \in {[op |-> "route", query |-> q, files |-> fp, text |-> <<>>, entities |-> <<>>,
                   context_lines |-> DefaultContextLines] :
                          q \in RouteQueries, fp \in RouteFiles}
                 \cup {[op |-> "scan", query |-> <<>>, files |-> <<>>, text |-> tx, entities |-> es,
                        context_lines |-> c] :
                          tx \in Texts \cup {ScenarioText}, es \in EntityLists,
                          c \in 0..MaxContextLines}
                 \cup {[op |-> "count", query |-> q, files |-> <<>>, text |-> tx, entities |-> <<>>,
                        context_lines |-> DefaultContextLines] :
                          q \in CountQueries, tx \in CountTexts}
    /\ pm_out = NoResult
    /\ IdleExtract
    /\ IdlePair
    /\ pattern_matcher = PatternMatcherInstance
    /\ IdleBackend
    /\ IdleAnalyzer

MatcherUnchanged ==
    UNCHANGED <<runtime_json, document_texts, should_use_pattern, condensed_context,
                agent_1_output, agent_2_output, final_answer_result,
                groundedness_result, accuracy_result, json_result, calls, http,
                response, scores, built, pm_in,
                sent, extract_in, extract_out, requests, pattern_matcher, backend, analyzer>>

\* scan_document(text, entities, context_lines)
Scan ==
    /\ pc = "call"
    /\ pm_in.op = "scan"
    /\ \E matches \in {ScanDocument(pm_in.text, pm_in.entities, pm_in.context_lines)} :
        pm_out' = [op |-> "scan", should_use |-> FALSE, entities |-> pm_in.entities,
                   documents |-> <<>>, total_matches |-> Len(matches), matches |-> matches]
    /\ pc' = "returned"
    /\ MatcherUnchanged

\* Lines 52-104 of process_documents: the decision and the documents the agents get.
Route ==
    /\ pc = "call"
    /\ pm_in.op = "route"
    /\ \E route \in {ShouldUsePatternMatching(pm_in.query)} :
       \E pattern_result \in
              {IF route.should_use
               THEN ExecuteCountingSearch(pm_in.query, FullText(Extracted[pm_in.files]))
               ELSE [total_matches |-> 0, matches |-> <<>>]} :
           pm_out' = [op |-> "route", should_use |-> route.should_use,
                      entities |-> route.entities,
                      documents |-> AgentDocuments(route.should_use, pm_in.files,
                                        IF route.should_use
                                        THEN CondensedContext(pattern_result)
                                        ELSE <<>>,
                                        Extracted[pm_in.files]),
                      total_matches |-> pattern_result.total_matches,
                      matches |-> pattern_result.matches]
    /\ pc' = "returned"
    /\ MatcherUnchanged

\* execute_counting_search(query, text)
CountingSearch ==
    /\ pc = "call"
    /\ pm_in.op = "count"
    /\ \E result \in {ExecuteCountingSearch(pm_in.query, pm_in.text)} :
        pm_out' = [op |-> "count", should_use |-> FALSE, entities |-> result.entities_searched,
                   documents |-> <<>>, total_matches |-> result.total_matches,
                   matches |-> result.matches]
    /\ pc' = "returned"
    /\ MatcherUnchanged

NextMatch == Scan \/ Route \/ CountingSearch

SpecMatch == InitMatch /\ [][NextMatch]_vars

(***************************************************************************)
(* _extract_sections_used on its own: one call over documents whose pages  *)
(* qualify with a snippet, qualify with a blank snippet, or do not         *)
(* qualify.                                                                *)
(***************************************************************************)
MaxPages == 6
PagesPerFile == 3

\* A page whose first SnippetLen characters are blanks, followed by PageOne.
BlankHead == [i \in 1..SnippetLen |-> " "] \o PageOne

PageTexts == {PageOne, PageTwo, BlankHead}
FileNames == <<"a.pdf", "b.pdf", "c.pdf", "d.pdf">>

\* The documents of files that hold the given pages, PagesPerFile to a file, in
\* the form extract_with_pdfplumber returns them.
Documents(texts) ==
    [f \in 1..((Len(texts) + PagesPerFile - 1) \div PagesPerFile) |->
        LET own == SubSeq(texts, (f - 1) * PagesPerFile + 1, Min(Len(texts), f * PagesPerFile))
        IN  [file_path |-> <<"uploads", FileNames[f]>>, file_name |-> FileNames[f],
             total_pages |-> Len(own), pages |-> Pages(own),
             full_text |-> Join(own, <<"\n">>), extraction_method |-> "pdfplumber"]]

DocumentSets == {Documents(texts) : texts \in UNION {[1..k -> PageTexts] : k \in 0..MaxPages}}

AnswerTexts == {PageOne, <<"U", "S", "A">>}

InitExtract ==
    /\ pc = "extract"
    /\ NewRequest(<<>>, <<>>)
    /\ IdleMetrics
    /\ IdleMatcher
    /\ IdlePair
    /\ pattern_matcher = PatternMatcherInstance
    /\ IdleBackend
    /\ IdleAnalyzer
    /\ extract_in \in [final_answer : {Str(a) : a \in AnswerTexts},
                        documents : DocumentSets, prompt : {PromptPlain, PromptCounting}]
    /\ extract_out = NoExtractResult

\* _extract_sections_used(final_answer, document_texts, prompt)
Extract ==
    /\ pc = "extract"
    /\ extract_out' = [op |-> "extract"] @@
           ExtractSectionsUsed(extract_in.final_answer, extract_in.documents, extract_in.prompt)
    /\ pc' = "extracted"
    /\ UNCHANGED <<runtime_json, document_texts, should_use_pattern, condensed_context,
                   agent_1_output, agent_2_output, final_answer_result,
                   groundedness_result, accuracy_result, json_result, calls, http,
                   response, scores, built, pm_in, pm_out, sent, extract_in, requests,
                   pattern_matcher, backend, analyzer>>

NextExtract == Extract

SpecExtract == InitExtract /\ [][NextExtract]_vars

(***************************************************************************)
(* Two requests served together.  process_documents keeps everything it    *)
(* computes in locals; the objects it shares with other requests are the   *)
(* module-level instances, of which only pattern_matcher has data.  A      *)
(* request is the record of its locals together with the answers the       *)
(* reasoning service gives to its calls, and a step takes one request from *)
(* one reasoning call to the next.                                         *)
(***************************************************************************)
RequestIds == {"r1", "r2"}

JsonShape == <<"{", "m", "}">>
PairFinalResponses ==
    {[shape |-> JsonShape,
      members |-> ("final_answer" :> Str("merged answer")) @@ ("confidence_score" :> Num(9))],
     [shape |-> <<"w">>, members |-> EmptyDict]}
PairMetricResponse ==
    [shape |-> JsonShape, members |-> ("score" :> Num(9)) @@ ("justification" :> Str("because"))]

\* The answers of the service to the calls of one request; fails_at names the
\* call that raises, if any.
Scripts ==
    [draft : DraftTexts, condensed : CondensedTexts, final : PairFinalResponses,
     metric : {PairMetricResponse}, fails_at : {"", "accuracy"}]

PairRequests ==
    [file_paths : {<<PathA>>, <<PathScenario>>}, prompt : {PromptPlain, PromptCount}]

\* The locals of process_documents at line 41.
Fresh(rj, script) ==
    [pc |-> "start", runtime_json |-> rj, script |-> script, document_texts |-> <<>>,
     should_use_pattern |-> FALSE, condensed_context |-> <<>>,
     agent_1_output |-> "", agent_2_output |-> "", final_answer_result |-> NoFinal,
     groundedness_result |-> NoScore, accuracy_result |-> NoScore,
     http |-> NoHttp, response |-> NoResponse]

\* The request after one of the except clauses of lines 157-164.
Failed(req, status, detail) ==
    [Fresh(req.runtime_json, req.script) EXCEPT
        !.pc = "error", !.http = [status |-> status, detail |-> detail]]

\* Lines 41-109 for one request.
Started(req) ==
    LET ex    == ExtractTextFromMultiplePdfs(req.runtime_json.file_paths)
        route == ShouldUsePatternMatching(req.runtime_json.prompt)
    IN  IF ex.raised = "FileNotFoundError" THEN Failed(req, 404, "PDF file not found")
        ELSE IF ex.raised # "none" THEN Failed(req, 500, "Error processing PDF")
        ELSE [req EXCEPT !.pc = "agent_1",
                         !.document_texts = ex.docs,
                         !.should_use_pattern = route.should_use,
                         !.condensed_context =
                             IF route.should_use
                             THEN BuildCondensedContext(req.runtime_json.prompt, ex.docs)
                             ELSE <<>>]

\* A metric step of _evaluate_answers for one request.
Scored(req, result, field, next) ==
    IF result.justification.t # "str" THEN Failed(req, 500, "TypeError")
    ELSE [req EXCEPT ![field] = result, !.pc = next]

\* Step 4 of _evaluate_answers and everything after it, for one request.
Completed(req) ==
    LET docs     == AgentDocuments(req.should_use_pattern, req.runtime_json.file_paths,
                                   req.condensed_context, req.document_texts)
        result   == EvaluateRelevance(req.script.metric)
        metrics  == CombineResults(req.final_answer_result.confidence_score,
                        req.groundedness_result.score, req.groundedness_result.justification,
                        req.accuracy_result.score, req.accuracy_result.justification,
                        result.score, result.justification, Len(docs))
        sections == ExtractSectionsUsed(req.final_answer_result.final_answer, docs,
                                        req.runtime_json.prompt)
    IN  IF result.justification.t # "str" THEN Failed(req, 500, "TypeError")
        ELSE IF ~MetricsValid(metrics) THEN Failed(req, 500, "ValidationError")
        ELSE IF sections.raised # "none" THEN Failed(req, 500, sections.raised)
        ELSE IF req.final_answer_result.final_answer.t # "str"
        THEN Failed(req, 500, "ValidationError")
        ELSE [req EXCEPT !.pc = "done",
                         !.http = [status |-> 200, detail |-> ""],
                         !.response = [kind |-> "AIResponse",
                                       agent_1_output |-> req.agent_1_output,
                                       agent_2_output |-> req.agent_2_output,
                                       final_answer |-> req.final_answer_result.final_answer,
                                       metrics |-> metrics,
                                       sections_used |-> sections.sections]]

\* One request from one reasoning call to the next.
AdvanceRequest(req) ==
    IF req.pc = "start" THEN Started(req)
    ELSE IF req.pc \in Range(Stages) /\ req.script.fails_at = req.pc
    THEN Failed(req, 500, "OpenAI API error")
    ELSE CASE req.pc = "agent_1" ->
                [req EXCEPT !.agent_1_output = req.script.draft, !.pc = "agent_2"]
           [] req.pc = "agent_2" ->
                [req EXCEPT !.agent_2_output = req.script.condensed, !.pc = "final_answer"]
           [] req.pc = "final_answer" ->
                [req EXCEPT !.final_answer_result =
                                DetermineFinalAnswer(req.script.final, req.agent_2_output),
                            !.pc = "groundedness"]
           [] req.pc = "groundedness" ->
                Scored(req, EvaluateGroundedness(req.script.metric), "groundedness_result",
                       "accuracy")
           [] req.pc = "accuracy" ->
                Scored(req, EvaluateAccuracy(req.script.metric), "accuracy_result", "relevance")
           [] req.pc = "relevance" -> Completed(req)
           [] OTHER -> req

\* A step that keeps the extracted documents on the shared instance and reads
\* them back from there.
AdvanceThroughInstance(req, matcher) ==
    LET seen == IF "document_texts" \in DOMAIN matcher /\ req.pc # "start"
                THEN [req EXCEPT !.document_texts = matcher.document_texts]
                ELSE req
        next == AdvanceRequest(seen)
    IN  [req |-> next,
         matcher |-> [compiled_patterns |-> matcher.compiled_patterns,
                      document_texts |-> next.document_texts]]

\* A step of process_documents: it reads the shared instance and leaves it as it is.
Advance(req, matcher) == [req |-> AdvanceRequest(req), matcher |-> matcher]

InitPair ==
    /\ pc = "serving"
    /\ NewRequest(<<>>, <<>>)
    /\ IdleMetrics
    /\ IdleMatcher
    /\ IdleExtract
    /\ pattern_matcher = PatternMatcherInstance
    /\ IdleBackend
    /\ IdleAnalyzer
    /\ requests \in [RequestIds -> {Fresh(rj, script) : rj \in PairRequests, script \in Scripts}]

\* The next step of request r, whatever the other request is doing.
Step(r) ==
    /\ pc = "serving"
    /\ requests[r].pc \notin {"done", "error"}
    /\ \E out \in {Advance(requests[r], pattern_matcher)} :
        /\ requests' = [requests EXCEPT ![r] = out.req]
        /\ pattern_matcher' = out.matcher
    /\ UNCHANGED <<pc, runtime_json, document_texts, should_use_pattern, condensed_context,
                   agent_1_output, agent_2_output, final_answer_result,
                   groundedness_result, accuracy_result, json_result, calls, http,
                   response, scores, built, pm_in, pm_out, sent, extract_in, extract_out, backend, analyzer>>

NextPair == \E r \in RequestIds : Step(r)

SpecPair == InitPair /\ [][NextPair]_vars

(***************************************************************************)
(* The backend (backend/app/routes/process.py, services/ai_client.py): one *)
(* request to /api/process, from the validation of its paths to the answer *)
(* it gives its caller.  The AI service is what the client reaches over    *)
(* HTTP: it answers with a status and a body, or the transport fails.      *)
(***************************************************************************)
\* Path.cwd() of the backend, and the files under it.
Cwd == <<"/", "srv">>
BackendFiles == {Cwd \o PathA, Cwd \o PathScenario}

\* Path(file_path).is_absolute()
IsAbsolute(file_path) == Len(file_path) > 0 /\ file_path[1] = "/"

\* Lines 35-37 of the route.
FullPath(file_path) == IF IsAbsolute(file_path) THEN file_path ELSE Cwd \o file_path

\* The loop of lines 33-49 with a missing file passed over instead of refused.
RECURSIVE ValidatePathsSkippingMissing(_, _)
ValidatePathsSkippingMissing(file_paths, absolute_file_paths) ==
    IF file_paths = <<>>
    THEN [raised |-> "none", status |-> 0, absolute_file_paths |-> absolute_file_paths]
    ELSE IF FullPath(file_paths[1]) \notin BackendFiles
    THEN ValidatePathsSkippingMissing(Tail(file_paths), absolute_file_paths)
    ELSE ValidatePathsSkippingMissing(Tail(file_paths),
             Append(absolute_file_paths, FullPath(file_paths[1])))

\* The loop of lines 33-49: the first path that does not exist raises
\* HTTPException(404); otherwise every path is made absolute.
RECURSIVE ValidatePaths(_, _)
ValidatePaths(file_paths, absolute_file_paths) ==
    IF file_paths = <<>>
    THEN [raised |-> "none", status |-> 0, absolute_file_paths |-> absolute_file_paths]
    ELSE IF FullPath(file_paths[1]) \notin BackendFiles
    THEN [raised |-> "HTTPException", status |-> 404, absolute_file_paths |-> <<>>]
    ELSE ValidatePaths(Tail(file_paths),
             Append(absolute_file_paths, FullPath(file_paths[1])))

\* What requests.post can come to: a response with a status and a body that is
\* or is not an AIResponse, or an exception of the transport.  ConnectTimeout
\* is a subclass of both ConnectionError and Timeout, ReadTimeout of Timeout.
AIStatuses == {200, 400, 404, 422, 500, 502, 503}
AIOutcomes ==
    {[kind |-> "response", status |-> s, body_valid |-> FALSE] : s \in AIStatuses}
    \cup {[kind |-> "response", status |-> 200, body_valid |-> TRUE]}
    \cup {[kind |-> k, status |-> 0, body_valid |-> FALSE] :
        k \in {"ConnectionError", "ConnectTimeout", "ReadTimeout"}}
NoOutcome == [kind |-> "none", status |-> 0, body_valid |-> FALSE]

IsConnectionError(outcome) == outcome.kind \in {"ConnectionError", "ConnectTimeout"}
IsTimeout(outcome) == outcome.kind \in {"ConnectTimeout", "ReadTimeout"}

\* Response.raise_for_status(): HTTPError for a status from 400 to 599.
RaisesForStatus(status) == status >= 400 /\ status < 600

\* bool(response): requests defines Response.__bool__ as Response.ok, which
\* is False exactly when raise_for_status() raises.
ResponseBool(status) == ~RaisesForStatus(status)

\* e.response.status_code if e.response else 500 (line 88)
HTTPErrorStatus(status) == IF ResponseBool(status) THEN status ELSE 500

\* AIServiceClient.process_documents: the AIResponse returned or the
\* HTTPException raised, the except clauses tried in the order of lines 73-98.
ClientProcessDocuments(outcome) ==
    IF outcome.kind = "response" /\ ~RaisesForStatus(outcome.status)
    THEN IF outcome.body_valid
         THEN [raised |-> "none", status |-> 200]
         ELSE [raised |-> "HTTPException", status |-> 500]
    ELSE IF IsConnectionError(outcome)
    THEN [raised |-> "HTTPException", status |-> 503]
    ELSE IF IsTimeout(outcome)
    THEN [raised |-> "HTTPException", status |-> 504]
    ELSE [raised |-> "HTTPException", status |-> HTTPErrorStatus(outcome.status)]

BackendPaths == {PathA, PathGone, Cwd \o PathScenario, Cwd \o PathGone}
BackendFileLists == UNION {[1..k -> BackendPaths] : k \in 0..MaxFiles}

InitBackend ==
    /\ pc = "backend"
    /\ NewRequest(<<>>, <<>>)
    /\ IdleMetrics
    /\ IdleMatcher
    /\ IdleExtract
    /\ IdlePair
    /\ pattern_matcher = PatternMatcherInstance
    /\ IdleAnalyzer
    /\ \E fp \in BackendFileLists :
           backend = [pc |-> "received", file_paths |-> fp, ai_called |-> FALSE,
                      forwarded |-> <<>>, ai |-> NoOutcome, status |-> 0]

BackendUnchanged ==
    UNCHANGED <<pc, runtime_json, document_texts, should_use_pattern, condensed_context,
                agent_1_output, agent_2_output, final_answer_result,
                groundedness_result, accuracy_result, json_result, calls, http,
                response, scores, built, pm_in, pm_out, sent, extract_in, extract_out,
                requests, pattern_matcher, analyzer>>

\* Lines 26-61 of the route: the paths are validated, and the request is either
\* refused (the HTTPException passes through the clause of lines 86-88) or
\* sent to the AI service with absolute paths.
ValidateAndForward ==
    /\ backend.pc = "received"
    /\ \E checked \in {ValidatePaths(backend.file_paths, <<>>)} :
        backend' = IF checked.raised # "none"
                   THEN [backend EXCEPT !.pc = "answered", !.status = checked.status]
                   ELSE [backend EXCEPT !.pc = "forwarded", !.ai_called = TRUE,
                                        !.forwarded = checked.absolute_file_paths]
    /\ BackendUnchanged

\* The call of line 61 comes back: the client returns or raises, and the route
\* returns the response or lets the HTTPException through (lines 84-88).
AIServiceAnswers ==
    /\ backend.pc = "forwarded"
    /\ \E outcome \in AIOutcomes :
        backend' = [backend EXCEPT !.pc = "answered", !.ai = outcome,
                                   !.status = ClientProcessDocuments(outcome).status]
    /\ BackendUnchanged

NextBackend == ValidateAndForward \/ AIServiceAnswers

SpecBackend == InitBackend /\ [][NextBackend]_vars

(***************************************************************************)
(* SmartContextFileAnalyzer (test2.py): the conversation and its trimming. *)
(***************************************************************************)

\* A message is its role and its content; contents are told apart by a number.
\* The summary message is an assistant message whose content is the summary.
SummaryContent == 0
SystemContent == 1
QuestionContent == 2
AssistantContent == 3
ToolContent == 4
SummaryRequestContent == 5

Message(role, content) == [role |-> role, content |-> content]

summary_message == Message("assistant", SummaryContent)

IsSystem(msg) == msg.role = "system"
IsConversation(msg) == ~IsSystem(msg)

\* The loop of lines 186-190: the last system message seen is the one kept.
conversation_messages(messages) == SelectSeq(messages, IsConversation)
system_messages(messages) == SelectSeq(messages, IsSystem)

TrimKeepingFirstEight(conversation) ==
    IF Len(conversation) > 10
    THEN LET start_messages == PySlice(conversation, 0, 3)
             end_messages == PySlice(conversation, -5, Len(conversation))
             middle_messages == PySlice(conversation, 3, -5)
         IN  IF middle_messages # <<>>
             THEN start_messages \o <<summary_message>> \o end_messages
             ELSE start_messages \o end_messages
    ELSE PySlice(conversation, 0, 8)

trimmed_messages(conversation) ==
    IF Len(conversation) > 10
    THEN LET start_messages == PySlice(conversation, 0, 3)
             end_messages == PySlice(conversation, -5, Len(conversation))
             middle_messages == PySlice(conversation, 3, -5)
         IN  IF middle_messages # <<>>
             THEN start_messages \o <<summary_message>> \o end_messages
             ELSE start_messages \o end_messages
    ELSE PySlice(conversation, -8, Len(conversation))

trim_conversation_with_summary(messages) ==
    LET system == system_messages(messages)
        kept == trimmed_messages(conversation_messages(messages))
    IN  IF system # <<>> THEN <<system[Len(system)]>> \o kept ELSE kept

\* count_tokens (lines 96-117): 4 tokens for the role of each message and the
\* tokens of its content, here the same number for every message.
RoleOverhead == 4
ContentTokens == 996
SUMMARY_TRIGGER_THRESHOLD == 12000

count_tokens(messages) == Len(messages) * (RoleOverhead + ContentTokens)

max_iterations == 25
MaxToolCalls == 2

\* What a completion call can come back with: a response, whose finish reason
\* is "tool_calls" (with a list of tool calls, or none at all), "stop" or
\* "length" and whose content is a string or None, or an exception.
Completions ==
    [kind : {"response"}, finish_reason : {"tool_calls"}, content : {"str", "None"},
     tool_calls : 0..MaxToolCalls \cup {-1}]
    \cup [kind : {"response"}, finish_reason : {"stop", "length"},
          content : {"str", "None"}, tool_calls : {0}]
    \cup {[kind |-> "raised", finish_reason |-> "none", content |-> "None", tool_calls |-> 0]}

NotReturned == [type |-> "none", error |-> FALSE]
ReturnedContent(content) == [type |-> IF content = "None" THEN "NoneType" ELSE "str", error |-> FALSE]
ErrorMessage == [type |-> "str", error |-> TRUE]

\* The messages of one round of tool calls: the assistant's message and one
\* tool message for each tool call, whether the tool succeeded or failed.
ToolRound(n) == <<Message("assistant", AssistantContent)>>
                \o [i \in 1..n |-> Message("tool", ToolContent)]

\* Conversations handed to trim_conversation_with_summary directly: up to
\* MaxMessages messages, numbered in order, with up to two system messages.
MaxMessages == 13
ConversationRoles == <<"user", "assistant", "tool">>

TrimInputs ==
    UNION {{[i \in 1..n |-> Message(IF i \in sys THEN "system"
                                    ELSE ConversationRoles[(i % 3) + 1], 10 + i)] :
                sys \in {s \in SUBSET (1..n) : Cardinality(s) <= 2}} : n \in 0..MaxMessages}

AskStart ==
    [pc |-> "loop", op |-> "ask",
     messages |-> <<Message("system", SystemContent), Message("user", QuestionContent)>>,
     iteration |-> 0, tool_enabled_calls |-> 0, summary_calls |-> 0, trimmed |-> 0,
     result |-> <<>>, returned |-> NotReturned]

InitAnalyzer ==
    /\ pc = "analyzer"
    /\ NewRequest(<<>>, <<>>)
    /\ IdleMetrics
    /\ IdleMatcher
    /\ IdleExtract
    /\ IdlePair
    /\ pattern_matcher = PatternMatcherInstance
    /\ IdleBackend
    /\ \/ analyzer = AskStart
       \/ \E messages \in TrimInputs :
              analyzer = [AskStart EXCEPT !.pc = "call", !.op = "trim", !.messages = messages]

AnalyzerUnchanged ==
    UNCHANGED <<pc, runtime_json, document_texts, should_use_pattern, condensed_context,
                agent_1_output, agent_2_output, final_answer_result,
                groundedness_result, accuracy_result, json_result, calls, http,
                response, scores, built, pm_in, pm_out, sent, extract_in, extract_out,
                requests, pattern_matcher, backend>>

\* A direct call of trim_conversation_with_summary.
TrimConversation ==
    /\ analyzer.pc = "call"
    /\ analyzer.op = "trim"
    /\ analyzer' = [analyzer EXCEPT !.pc = "returned",
                                    !.result = trim_conversation_with_summary(analyzer.messages)]
    /\ AnalyzerUnchanged

\* One pass of the loop of ask_question (lines 664-741): the conversation is
\* trimmed when it is over the threshold, the completion is requested with the
\* tools, and the response either adds a round of tool calls to the
\* conversation or ends the call.
IterationWithTools ==
    /\ analyzer.pc = "loop"
    /\ analyzer.iteration < max_iterations
    /\ \E completion \in Completions :
         LET over == count_tokens(analyzer.messages) > SUMMARY_TRIGGER_THRESHOLD
             messages == IF over THEN trim_conversation_with_summary(analyzer.messages)
                         ELSE analyzer.messages
             called == [analyzer EXCEPT !.iteration = @ + 1,
                                        !.messages = messages,
                                        !.trimmed = IF over THEN Min(@ + 1, 1) ELSE @,
                                        !.tool_enabled_calls = @ + 1]
         IN  analyzer' =
               IF completion.kind = "raised"
               THEN [called EXCEPT !.pc = "returned", !.returned = ErrorMessage]
               ELSE IF completion.finish_reason = "tool_calls"
               THEN IF completion.tool_calls = -1
                    THEN [called EXCEPT !.pc = "returned", !.returned = ErrorMessage]
                    ELSE [called EXCEPT !.messages = @ \o ToolRound(completion.tool_calls)]
               ELSE [called EXCEPT !.pc = "returned",
                                   !.returned = ReturnedContent(completion.content)]
    /\ AnalyzerUnchanged

\* After the last pass (lines 743-757): the summary is asked for without tools.
FinalSummaryCall ==
    /\ analyzer.pc = "loop"
    /\ analyzer.iteration >= max_iterations
    /\ \E completion \in Completions :
         LET asked == [analyzer EXCEPT
                          !.messages = @ \o <<Message("user", SummaryRequestContent)>>,
                          !.summary_calls = @ + 1, !.pc = "returned"]
         IN  analyzer' =
               IF completion.kind = "raised"
               THEN [asked EXCEPT !.returned = ErrorMessage]
               ELSE [asked EXCEPT !.returned = ReturnedContent(completion.content)]
    /\ AnalyzerUnchanged

NextAnalyzer == TrimConversation \/ IterationWithTools \/ FinalSummaryCall

SpecAnalyzer == InitAnalyzer /\ [][NextAnalyzer]_vars

(***************************************************************************)
(* Properties.                                                             *)
(***************************************************************************)

\* C1: the fast path is selected if and only if the prompt is a counting query
\* and names at least one entity; a prompt that is no counting query is never
\* routed to the fast path, whatever it names, and the agents then get the raw
\* documents.
C1_FastPathIffCountingAndEntity ==
    pm_out.op = "route" =>
        LET is_counting == IsCountingQuery(pm_in.query)
            entities    == ExtractEntitiesFromQuery(pm_in.query)
        IN  /\ pm_out.should_use <=> (is_counting /\ Len(entities) >= 1)
            /\ ~is_counting =>
                   (~pm_out.should_use /\ pm_out.documents = Extracted[pm_in.files])

\* A prompt that names an entity without counting intent was routed.
C1_EntityWithoutCountingRouted ==
    /\ pm_out.op = "route"
    /\ ~IsCountingQuery(pm_in.query)
    /\ Len(ExtractEntitiesFromQuery(pm_in.query)) >= 1
    /\ ~pm_out.should_use
    /\ pm_in.files = <<PathA>>
    /\ pm_out.documents = RouteDocuments

\* Line numbers (1-based) of the matches returned.
MatchedLineNumbers(matches) == {matches[k].line_number : k \in 1..Len(matches)}

\* C2: for two entities A and B that both have a compiled pattern,
\* scan_document(text, [A, B]) returns a match for a line if and only if A's
\* pattern matches the line and B's pattern matches the line.
C2_ScanIsConjunctive ==
    (/\ pm_out.op = "scan"
     /\ Len(pm_in.entities) = 2
     /\ Range(pm_in.entities) \subseteq DOMAIN compiled_patterns) =>
        LET lines == Split(pm_in.text, "\n")
            A     == pm_in.entities[1]
            B     == pm_in.entities[2]
        IN  \A i \in 1..Len(lines) :
                i \in MatchedLineNumbers(pm_out.matches)
                    <=> (/\ Search(compiled_patterns[A], lines[i], TRUE)
                         /\ Search(compiled_patterns[B], lines[i], TRUE))

\* A scan for two different entities returned one line and left out a line that
\* matches only the first entity and a line that matches only the second.
C2_OneOfThreeLinesReturned ==
    /\ pm_out.op = "scan"
    /\ pm_in.entities = <<"israel", "complaint">>
    /\ pm_in.text = Join(<<LineOnly, PageTwo, PageOne>>, <<"\n">>)
    /\ MatchedLineNumbers(pm_out.matches) = {3}

\* The double nearest to s/30, the mean of three scores whose tenths add up to s.
NearestToMean(s) == [n |-> s, d |-> Round(s, 0, 1)]

\* C3: for scores in [0,1], the Metrics value that is built has overall_score
\* equal to the mean of the three scores and needs_review equal to (mean < 0.8):
\* a mean of exactly 0.8 is not flagged, and 0.9, 0.7, 0.5 give 0.7 and a flag.
C3_MeanAndThreshold ==
    (/\ built.kind = "Metrics"
     /\ {scores.groundedness, scores.accuracy, scores.relevance} \subseteq 0..10) =>
        LET s == scores.groundedness + scores.accuracy + scores.relevance
        IN  /\ built.metrics.overall_score = NearestToMean(s)
            /\ built.metrics.needs_review = (s < 3 * 8)

\* The reasoning calls of a request, by position in calls.
CallOf(stage) == CHOOSE i \in 1..Len(Stages) : Stages[i] = stage
Returned(stage) == Len(calls) >= CallOf(stage) /\ calls[CallOf(stage)] = "returned"
InEvaluation == pc \in {"groundedness", "accuracy", "relevance"}

\* C4: when the response of the final-answer step holds no parsable JSON, the
\* step ends without an exception (the groundedness call is issued) and its
\* result, which reaches the response unchanged, is the condensed answer of
\* Agent 2 with confidence_score 0.7.
C4_UnparsableFinalAnswerFallsBack ==
    (Returned("final_answer") /\ ~json_result.final_answer.ok) =>
        /\ Len(calls) >= CallOf("groundedness")
        /\ InEvaluation =>
               /\ final_answer_result.final_answer = Str(agent_2_output)
               /\ final_answer_result.confidence_score = Tenths(7)
        /\ pc = "done" =>
               /\ response.final_answer = Str(response.agent_2_output)
               /\ response.metrics.confidence_score = Tenths(7)

\* A request completed after an unparsable final-answer response.
C4_CompletedOnFallback ==
    /\ pc = "done"
    /\ ~json_result.final_answer.ok
    /\ response.final_answer = Str("short answer")
    /\ response.metrics.confidence_score = Tenths(7)

\* The JSON of the final-answer step was parsed and lacks one of its two keys.
FinalKeyMissing ==
    /\ Returned("final_answer")
    /\ json_result.final_answer.ok
    /\ ~({"final_answer", "confidence_score"} \subseteq DOMAIN json_result.final_answer.obj)

Axes == {"groundedness", "accuracy", "relevance"}
ErrorText(axis) ==
    CASE axis = "groundedness" -> Str("Groundedness evaluation error")
      [] axis = "accuracy" -> Str("Accuracy evaluation error")
      [] axis = "relevance" -> Str("Relevance evaluation error")
ScoreOf(m, axis) ==
    CASE axis = "groundedness" -> m.groundedness
      [] axis = "accuracy" -> m.accuracy
      [] axis = "relevance" -> m.relevance
JustificationOf(m, axis) ==
    CASE axis = "groundedness" -> m.groundedness_justification
      [] axis = "accuracy" -> m.accuracy_justification
      [] axis = "relevance" -> m.relevance_justification

\* Parsed JSON whose values Metrics or the preview print rejects.
BadMetricContent(j) ==
    /\ j.ok
    /\ \/ "score" \in DOMAIN j.obj /\ j.obj["score"].t = "num" /\ j.obj["score"].n \notin 0..10
       \/ "justification" \in DOMAIN j.obj /\ j.obj["justification"].t # "str"
BadFinalContent(j) ==
    /\ j.ok
    /\ \/ /\ "confidence_score" \in DOMAIN j.obj
          /\ j.obj["confidence_score"].t = "num"
          /\ j.obj["confidence_score"].n \notin 0..10
       \/ "final_answer" \in DOMAIN j.obj /\ j.obj["final_answer"].t # "str"

\* C6: a metric response without parsable JSON, or whose score is no number,
\* gives that axis score 0.7 and its own error justification; an axis whose JSON carries a number and a string
\* keeps exactly these, whatever the other responses were; and a request whose
\* calls all returned ends in an error only if some parsed JSON carried a value
\* that is out of range or ill-typed, never for unparsable text.
C6_UnparsableMetricFallsBackAlone ==
    /\ pc = "done" =>
           \A axis \in Axes :
               /\ ~json_result[axis].ok =>
                      /\ ScoreOf(response.metrics, axis) = Tenths(7)
                      /\ JustificationOf(response.metrics, axis) = ErrorText(axis)
               /\ (/\ json_result[axis].ok
                   /\ "score" \in DOMAIN json_result[axis].obj
                   /\ json_result[axis].obj["score"].t # "num") =>
                      /\ ScoreOf(response.metrics, axis) = Tenths(7)
                      /\ JustificationOf(response.metrics, axis) = ErrorText(axis)
               /\ (/\ json_result[axis].ok
                   /\ DOMAIN json_result[axis].obj = {"score", "justification"}
                   /\ json_result[axis].obj["score"].t = "num") =>
                      /\ ScoreOf(response.metrics, axis) = Tenths(json_result[axis].obj["score"].n)
                      /\ JustificationOf(response.metrics, axis) = json_result[axis].obj["justification"]
    /\ (pc = "error" /\ Len(calls) >= 1 /\ calls[Len(calls)] = "returned") =>
           \/ BadFinalContent(json_result.final_answer)
           \/ \E axis \in Axes : BadMetricContent(json_result[axis])

\* A request completed with an unparsable groundedness response between a parsed
\* final answer and a parsed accuracy response.
C6_CompletedWithOneAxisOnFallback ==
    /\ pc = "done"
    /\ ~json_result.groundedness.ok
    /\ json_result.accuracy.ok
    /\ "score" \in DOMAIN json_result.accuracy.obj
    /\ response.metrics.groundedness = Tenths(7)
    /\ response.metrics.groundedness_justification = Str("Groundedness evaluation error")
    /\ response.metrics.accuracy = Tenths(9)
    /\ response.metrics.accuracy_justification = Str("because")

\* C7: a request whose reasoning calls all succeeded completes with a result,
\* whatever the responses held.
C7_ContentNeverAborts ==
    (Len(calls) >= 1 /\ \A i \in 1..Len(calls) : calls[i] = "returned") => pc = "done"

\* C8: once a reasoning call has failed, at whichever stage, the request has
\* ended with HTTP 500 and no result, and the failed call is the last call:
\* no call of a later stage was issued.
C8_FailedCallEndsRequest ==
    \A i \in 1..Len(calls) :
        calls[i] = "failed" =>
            /\ pc = "error"
            /\ http.status = 500
            /\ response = NoResponse
            /\ i = Len(calls)

\* The final-answer call failed after two calls that returned.
C8_FinalAnswerCallFailed ==
    /\ calls = <<"returned", "returned", "failed">>
    /\ pc = "error"
    /\ http.status = 500

\* C9: a request that names a missing file ends with HTTP 404, not 500, and
\* makes no reasoning call.
C9_MissingFileIsNotFound ==
    (/\ pc # "start"
     /\ \E i \in 1..Len(runtime_json.file_paths) : ~FileAt(runtime_json.file_paths[i]).exists) =>
        /\ pc = "error"
        /\ http.status = 404
        /\ calls = <<>>

InRange(x) == FLe(Tenths(0), x) /\ FLe(x, Tenths(10))

\* C10: every response returned has confidence_score, groundedness, accuracy,
\* relevance and overall_score within [0,1] and sources_used >= 0.
C10_ReturnedMetricsInRange ==
    pc = "done" =>
        /\ InRange(response.metrics.confidence_score)
        /\ InRange(response.metrics.groundedness)
        /\ InRange(response.metrics.accuracy)
        /\ InRange(response.metrics.relevance)
        /\ InRange(response.metrics.overall_score)
        /\ response.metrics.sources_used >= 0

\* A response was returned whose confidence and two of whose scores are the
\* numbers of parsed JSON.
C10_ReturnedAfterParsedScores ==
    /\ pc = "done"
    /\ json_result.groundedness.ok /\ json_result.relevance.ok
    /\ response.metrics.groundedness = Tenths(9)
    /\ response.metrics.relevance = Tenths(9)
    /\ response.metrics.confidence_score = Tenths(9)

\* The pages of a call of _extract_sections_used in scan order, those that
\* contain a prompt word longer than three characters, and those of them whose
\* first SnippetLen characters are not all blank.
CallPages == AllPages(extract_in.documents)
Qualifying == {i \in 1..Len(CallPages) : PageQualifies(CallPages[i].page, extract_in.prompt)}
Usable ==
    {i \in Qualifying : Strip(PySlice(CallPages[i].page.text, 0, SnippetLen)) # <<>>}
Nth(set, n) == CHOOSE i \in set : Cardinality({j \in set : j <= i}) = n

\* C11: at most 5 entries are returned, and when 6 or more pages qualify exactly
\* 5 are returned.
C11_SixQualifyingGiveFive ==
    extract_out.op = "extract" =>
        /\ Len(extract_out.sections) <= 5
        /\ Cardinality(Qualifying) >= 6 => Len(extract_out.sections) = 5

\* C11, amended: at most 5 entries are returned; a qualifying page gives an entry
\* only if its first 200 characters are not all blank; the entries are those of
\* the first such pages in scan order, exactly 5 when 5 or more exist, and no
\* page after the page of the fifth entry is scanned.
C11_AtMostFiveStopsAtFifth ==
    extract_out.op = "extract" =>
        \A pages \in {CallPages} : \A usable \in {Usable} :
        /\ Len(extract_out.sections) <= 5
        /\ Len(extract_out.sections) = Min(Cardinality(usable), 5)
        /\ \A k \in 1..Len(extract_out.sections) :
               /\ extract_out.sections[k].file = pages[Nth(usable, k)].file
               /\ extract_out.sections[k].page = pages[Nth(usable, k)].page.page_num
        /\ Cardinality(usable) >= 5 =>
               extract_out.unscanned = SubSeq(pages, Nth(usable, 5) + 1, Len(pages))

\* Six pages qualify, the last of them with a blank snippet: five entries were
\* returned and the sixth page was not scanned.
C11_FiveOfSixQualifying ==
    /\ extract_out.op = "extract"
    /\ Len(extract_out.sections) = 5
    /\ Len(extract_out.unscanned) = 1
    /\ Cardinality(Qualifying) = 6
    /\ Cardinality(Usable) = 5

C13_SectionsNameOriginalDocuments ==
    pc = "done" =>
        /\ response.sections_used =
               ExtractSectionsUsed(response.final_answer, document_texts,
                                   runtime_json.prompt).sections
        /\ \A k \in 1..Len(response.sections_used) :
               \E d \in 1..Len(document_texts) :
                   /\ response.sections_used[k].file = document_texts[d].file_name
                   /\ response.sections_used[k].page \in 1..document_texts[d].total_pages

\* C14: the reasoning calls of the evaluation engine are issued in the order
\* final answer, groundedness, accuracy, relevance, each once; the three metric
\* steps are given the final answer of step 1, and the response returns it.
C14_StepsInOrderOnOneAnswer ==
    /\ Len(sent) <= Len(Stages)
    /\ \A i \in 1..Len(sent) : sent[i].stage = Stages[i]
    /\ pc \in Range(Stages) => pc = Stages[Len(sent)]
    /\ \A i \in 4..Len(sent) : sent[i].answer = sent[4].answer
    /\ InEvaluation => sent[4].answer = final_answer_result.final_answer
    /\ pc = "done" => (Len(sent) = 6 /\ response.final_answer = sent[6].answer)

\* A request completed whose three metric steps scored the final answer of the
\* JSON of step 1, which differs from the draft and from the condensed answer.
C14_MergedAnswerScoredAndReturned ==
    /\ pc = "done"
    /\ response.final_answer = Str("merged answer")
    /\ sent[4].answer = Str("merged answer")
    /\ sent[5].answer = Str("merged answer")
    /\ sent[6].answer = Str("merged answer")

\* C16: sources_used of a response is the number of documents of the request.
C16_SourcesUsedCountsDocuments ==
    pc = "done" =>
        /\ response.metrics.sources_used = Len(runtime_json.file_paths)
        /\ response.metrics.sources_used = Len(document_texts)

\* C19: extraction and routing come before the first reasoning call; the calls
\* are issued in the order draft, condense, final answer, groundedness,
\* accuracy, relevance; the condense call is given the draft, the evaluation
\* the draft and the condensed answer; a completed request has issued exactly
\* six calls, the last of them before the evidence extraction.
C19_StagesInOrder ==
    /\ Len(sent) = Len(calls)
    /\ \A i \in 1..Len(sent) : sent[i].stage = Stages[i]
    /\ pc = "start" => calls = <<>>
    /\ calls # <<>> => pc # "start"
    /\ pc \notin {"start", "error"} =>
           /\ should_use_pattern = ShouldUsePatternMatching(runtime_json.prompt).should_use
           /\ sent[1].documents = AgentDocuments(should_use_pattern, runtime_json.file_paths,
                                                 condensed_context, document_texts)
    /\ Len(sent) >= 2 =>
           /\ sent[2].draft \in DraftTexts
           /\ pc # "error" => sent[2].draft = agent_1_output
    /\ Len(sent) >= 3 =>
           /\ sent[3].draft = sent[2].draft
           /\ sent[3].condensed \in CondensedTexts
           /\ pc # "error" => sent[3].condensed = agent_2_output
    /\ pc = "done" =>
           /\ Len(calls) = 6
           /\ \A i \in 1..6 : calls[i] = "returned"
           /\ response.agent_1_output = sent[3].draft
           /\ response.agent_2_output = sent[3].condensed

\* A request completed on the fast path after six calls that returned.
C19_FastPathCompletedAfterSixCalls ==
    /\ pc = "done"
    /\ should_use_pattern
    /\ calls = <<"returned", "returned", "returned", "returned", "returned", "returned">>
    /\ sent[2].draft = "detailed answer"
    /\ sent[3].condensed = "short answer"

\* The text a condensed document holds for the given matches: after the header,
\* each context under a label with the line number of its match, then a rule.
RECURSIVE Labelled(_, _)
Labelled(matches, k) ==
    IF k > Len(matches) THEN <<>>
    ELSE <<"M", "a", "t", "c", "h", " ">> \o ToStr(k)
         \o <<" ", "(", "L", "i", "n", "e", " ">> \o ToStr(matches[k].line_number) \o <<")", ":", "\n">>
         \o matches[k].context \o <<"\n">> \o [i \in 1..80 |-> "-"] \o <<"\n", "\n">>
         \o Labelled(matches, k + 1)

\* C15: on the fast path the agents are given one document, whose text holds
\* the contexts of the first min(total_matches, 50) matches of the scan in
\* ascending line order, each under its line number; on the full path they are
\* given the extracted documents.
C15_CondensedDocumentOnFastPath ==
    pm_out.op = "route" =>
        IF pm_out.should_use
        THEN \A all \in {ScanDocument(FullText(Extracted[pm_in.files]), pm_out.entities,
                                      DefaultContextLines)} :
             \A kept \in {SubSeq(all, 1, Min(Len(all), 50))} :
                 /\ pm_out.total_matches = Len(all)
                 /\ \A k \in 1..(Len(kept) - 1) : kept[k].line_number < kept[k + 1].line_number
                 /\ Len(pm_out.documents) = 1
                 /\ pm_out.documents[1].file_name = "Pattern Matched Sections"
                 /\ Len(pm_out.documents[1].pages) = 1
                 /\ pm_out.documents[1].pages[1].text = pm_out.documents[1].full_text
                 /\ pm_out.documents[1].full_text = CondensedHeader \o Labelled(kept, 1)
        ELSE pm_out.documents = Extracted[pm_in.files]

\* The fast path was taken over a text with 51 matching lines, the first of
\* them line 2: the condensed document holds 50 contexts.
C15_FiftyOfFiftyOneMatchesKept ==
    /\ pm_out.op = "route"
    /\ pm_out.should_use
    /\ pm_in.files = <<PathLong>>
    /\ pm_out.total_matches = 51
    /\ Len(pm_out.matches) = 50
    /\ pm_out.matches[1].line_number = 2
    /\ Len(pm_out.documents) = 1

\* C17: for the three-line text and the prompt "How many complaints are from
\* Israel?", the prompt is a counting query, the entities are exactly israel,
\* the scan for israel returns the matches of lines 1 and 3, and the fast path
\* is selected.
C17_IsraelScenario ==
    /\ (pm_out.op = "route" /\ pm_in.query = PromptCounting) =>
           /\ IsCountingQuery(pm_in.query)
           /\ pm_out.entities = <<"israel">>
           /\ pm_out.should_use
    /\ (pm_out.op = "route" /\ pm_in.query = PromptCounting /\ pm_in.files = <<PathScenario>>) =>
           /\ pm_out.total_matches = 2
           /\ MatchedLineNumbers(pm_out.matches) = {1, 3}
    /\ (pm_out.op = "scan" /\ pm_in.text = ScenarioText /\ pm_in.entities = <<"israel">>) =>
           /\ Len(pm_out.matches) = 2
           /\ MatchedLineNumbers(pm_out.matches) = {1, 3}

\* The prompt was routed over the file that holds the three-line text.
C17_ScenarioRouted ==
    /\ pm_out.op = "route"
    /\ pm_in.query = PromptCounting
    /\ FileAt(pm_in.files[1]).pages = <<ScenarioText>>
    /\ Len(Split(ScenarioText, "\n")) = 3
    /\ pm_out.should_use
    /\ Len(pm_out.matches) = 2

\* C20: scan_document returns no match for an empty entity list and for a
\* non-empty list none of whose names has a compiled pattern, and it reports a
\* line only if every requested entity matches it.
C20_UnknownEntitiesMatchNothing ==
    pm_out.op = "scan" =>
        /\ pm_in.entities = <<>> => pm_out.matches = <<>>
        /\ (pm_in.entities # <<>> /\ Range(pm_in.entities) \cap DOMAIN compiled_patterns = {}) =>
               pm_out.matches = <<>>
        /\ \A k \in 1..Len(pm_out.matches) : \A e \in Range(pm_in.entities) :
               /\ e \in DOMAIN compiled_patterns
               /\ Search(compiled_patterns[e],
                         Split(pm_in.text, "\n")[pm_out.matches[k].line_number], TRUE)

\* The states a request goes through when it is served alone, from the given
\* state on, with the shared instance as constructed.
RECURSIVE Alone(_, _)
Alone(req, matcher) ==
    IF req.pc \in {"done", "error"} THEN {req}
    ELSE LET out == Advance(req, matcher)
         IN  {req} \cup Alone(out.req, out.matcher)

\* The run alone of every request that can be served.
SoloRuns ==
    [fresh \in {Fresh(rj, script) : rj \in PairRequests, script \in Scripts} |->
        Alone(fresh, PatternMatcherInstance)]

\* C18: however the steps of two requests are interleaved, each request is at
\* every moment in a state of its run alone with the same inputs and the same
\* service responses, so its final answer, metrics and sections_used are those
\* of the run alone; and the shared pattern table is never modified.
C18_RequestsDoNotInterfere ==
    pc = "serving" =>
        /\ pattern_matcher = PatternMatcherInstance
    /\ IdleBackend
    /\ IdleAnalyzer
        /\ \A r \in RequestIds :
               \A alone \in {SoloRuns[Fresh(requests[r].runtime_json, requests[r].script)]} :
                   /\ requests[r] \in alone
                   /\ requests[r].pc \in {"done", "error"} =>
                          \A last \in alone :
                              last.pc \in {"done", "error"} =>
                                  /\ last.response = requests[r].response
                                  /\ last.http = requests[r].http

\* Two requests over different files, both with entries in sections_used, have
\* completed, each with the entries of its own file.
C18_BothCompletedOverDifferentFiles ==
    /\ pc = "serving"
    /\ requests["r1"].pc = "done"
    /\ requests["r2"].pc = "done"
    /\ requests["r1"].runtime_json.file_paths = <<PathA>>
    /\ requests["r2"].runtime_json.file_paths = <<PathScenario>>
    /\ Len(requests["r1"].response.sections_used) = 1
    /\ requests["r1"].response.sections_used[1].file = "a.pdf"
    /\ requests["r2"].response.sections_used[1].file = "scenario.pdf"

\* The positions in scan order of the pages the entries of a call name.
Included ==
    {i \in 1..Len(CallPages) :
        \E k \in 1..Len(extract_out.sections) :
            /\ extract_out.sections[k].file = CallPages[i].file
            /\ extract_out.sections[k].page = CallPages[i].page.page_num}

\* C21: the entries are those of the first up to 5 qualifying pages in scan
\* order, so no qualifying page is omitted while a later one is included.
C21_FirstQualifyingInScanOrder ==
    extract_out.op = "extract" =>
        \A included \in {Included} : \A qualifying \in {Qualifying} :
        /\ included \subseteq qualifying
        /\ Cardinality(included) = Min(Cardinality(qualifying), SectionCap)
        /\ \A i \in qualifying : \A j \in included : i < j => i \in included

\* C21, amended: the entries follow the scan order, each carries the stripped
\* first 200 characters of its page, and they are those of the first up to 5
\* qualifying pages whose snippet is not blank; a qualifying page with a blank
\* snippet is passed over, and no page with a snippet is omitted while a later
\* one is included.
C21_FirstUsableInScanOrder ==
    extract_out.op = "extract" =>
        \A pages \in {CallPages} : \A included \in {Included} : \A usable \in {Usable} :
        /\ included \subseteq usable
        /\ Cardinality(included) = Len(extract_out.sections)
        /\ \A i \in usable : \A j \in included : i < j => i \in included
        /\ \A k \in 1..Len(extract_out.sections) : \E i \in included :
               /\ extract_out.sections[k].file = pages[i].file
               /\ extract_out.sections[k].page = pages[i].page.page_num
               /\ extract_out.sections[k].text_snippet =
                      Strip(PySlice(pages[i].page.text, 0, SnippetLen)) \o Ellipsis
               /\ Cardinality({j \in included : j <= i}) = k
        /\ \A i \in usable \ included : Cardinality({j \in usable : j < i}) >= SectionCap

\* A call over two files in which the first page qualifies with a blank
\* snippet and is passed over, the next five pages give the entries, and none
\* of them is from the first page.
C21_BlankPagePassedOver ==
    /\ extract_out.op = "extract"
    /\ Len(extract_in.documents) = 2
    /\ 1 \in Qualifying \ Usable
    /\ Included = 2..6
    /\ extract_out.sections[1].page = 2
    /\ extract_out.sections[3].file = "b.pdf"

\* The 1-based numbers of the lines of a text on which every one of the
\* entities of a query is named; none when the query names no entity.
NamedLines(query, text) ==
    LET entities == ExtractEntitiesFromQuery(query)
        lines    == Split(text, "\n")
    IN  IF entities = <<>> THEN {}
        ELSE {i \in 1..Len(lines) :
                 \A k \in 1..Len(entities) :
                     Search(compiled_patterns[entities[k]], lines[i], TRUE)}

\* C22: execute_counting_search reports as total_matches the number of all
\* lines scan_document matches for the entities of the query, and as matches the
\* first min(total_matches, 50) of those matches, in ascending line order.
C22_TotalUncappedMatchesCapped ==
    pm_out.op = "count" =>
        \A all \in {ScanDocument(pm_in.text, ExtractEntitiesFromQuery(pm_in.query),
                                 DefaultContextLines)} :
        \A named \in {NamedLines(pm_in.query, pm_in.text)} :
            /\ pm_out.total_matches = Len(all)
            /\ pm_out.total_matches = Cardinality(named)
            /\ Len(pm_out.matches) = Min(pm_out.total_matches, 50)
            /\ \A k \in 1..Len(pm_out.matches) :
                   /\ pm_out.matches[k] = all[k]
                   /\ pm_out.matches[k].line_number \in named
                   /\ Cardinality({i \in named : i <= pm_out.matches[k].line_number}) = k

\* A search for Israel over 52 lines of which the last 51 name it: the total
\* is 51, and the 50 matches are those of lines 2 to 51.
C22_FiftyOneCountedFiftyListed ==
    /\ pm_out.op = "count"
    /\ pm_in.text = LongText
    /\ pm_out.entities = <<"israel">>
    /\ pm_out.total_matches = 51
    /\ Len(pm_out.matches) = 50
    /\ pm_out.matches[1].line_number = 2
    /\ pm_out.matches[50].line_number = 51

\* C23: every Match of scan_document for 1-based line i of a text of n lines
\* with context_lines = c has line_number i and as context the lines
\* max(1, i - c) to min(n, i + c) joined by newlines: line i is among them, none
\* is outside the text and there are at most 2c + 1.
C23_ContextWindowClipped ==
    pm_out.op = "scan" =>
        \A lines \in {Split(pm_in.text, "\n")} : \A c \in {pm_in.context_lines} :
        \A k \in 1..Len(pm_out.matches) :
            \A i \in {pm_out.matches[k].line_number} :
            \A window \in {Split(pm_out.matches[k].context, "\n")} :
                /\ i \in 1..Len(lines)
                /\ pm_out.matches[k].line_text = Strip(lines[i])
                /\ pm_out.matches[k].context =
                       Join(SubSeq(lines, Max(1, i - c), Min(Len(lines), i + c)), <<"\n">>)
                /\ Len(window) = Min(Len(lines), i + c) - Max(1, i - c) + 1
                /\ Len(window) <= 2 * c + 1
                /\ window[i - Max(1, i - c) + 1] = lines[i]

\* A scan for israel with one line of context over three lines of which the
\* first and the last name Israel: both contexts are clipped to two lines.
C23_BothEndsClipped ==
    /\ pm_out.op = "scan"
    /\ pm_in.context_lines = 1
    /\ pm_in.entities = <<"israel">>
    /\ pm_in.text = Join(<<PageOne, PageTwo, LineOnly>>, <<"\n">>)
    /\ Len(pm_out.matches) = 2
    /\ pm_out.matches[1].context = Join(<<PageOne, PageTwo>>, <<"\n">>)
    /\ pm_out.matches[2].context = Join(<<PageTwo, LineOnly>>, <<"\n">>)

\* The three scores of an aggregation in every order.
Orders(g, a, r) ==
    {<<g, a, r>>, <<g, r, a>>, <<a, g, r>>, <<a, r, g>>, <<r, g, a>>, <<r, a, g>>}

\* C24: for scores in [0,1], overall_score and needs_review of the Metrics value
\* that is built are those of every permutation of the three scores among
\* groundedness, accuracy and relevance.
C24_AggregationOrderIndependent ==
    (/\ built.kind = "Metrics"
     /\ {scores.groundedness, scores.accuracy, scores.relevance} \subseteq 0..10) =>
        \A p \in Orders(scores.groundedness, scores.accuracy, scores.relevance) :
            \A overall_score \in {OverallScore(Tenths(p[1]), Tenths(p[2]), Tenths(p[3]))} :
                /\ overall_score = built.metrics.overall_score
                /\ NeedsReview(overall_score) = built.metrics.needs_review


\* A metric step took its default score: the response held no JSON object, or
\* the object held no score, or a score that is no number.
Defaulted(j) ==
    \/ ~j.ok
    \/ "score" \notin DOMAIN j.obj
    \/ j.obj["score"].t # "num"

\* C25: a completed request whose three metric steps all took the default score
\* has the three scores 0.7, an overall_score below 0.8 and needs_review = true.
C25_AllDefaultedNeedsReview ==
    (pc = "done" /\ \A axis \in Axes : Defaulted(json_result[axis])) =>
        /\ \A axis \in Axes : ScoreOf(response.metrics, axis) = Tenths(7)
        /\ response.metrics.overall_score = OverallScore(Tenths(7), Tenths(7), Tenths(7))
        /\ FLt(response.metrics.overall_score, Tenths(8))
        /\ response.metrics.needs_review

\* A request completed after three metric responses of which the first held no
\* JSON object, the second an object without a score and the third none again.
C25_CompletedOnThreeDefaults ==
    /\ pc = "done"
    /\ ~json_result.groundedness.ok
    /\ json_result.accuracy.ok
    /\ "score" \notin DOMAIN json_result.accuracy.obj
    /\ ~json_result.relevance.ok
    /\ response.metrics.needs_review

\* How far a request has come: the start, the six reasoning calls in order, the end.
StageRank(p) ==
    CASE p = "start" -> 0
      [] p \in Range(Stages) -> CHOOSE i \in 1..Len(Stages) : Stages[i] = p
      [] OTHER -> Len(Stages) + 1

\* C26: when every call returns or fails in the end, a request ends, with a
\* complete response or with an error, and stays ended; every step takes it to
\* a later stage, so no stage is repeated and none is waited in for ever.
C26_EveryRequestEnds ==
    /\ <>[](\/ pc = "done" /\ response.kind = "AIResponse" /\ http.status = 200
            \/ pc = "error" /\ response = NoResponse /\ http.status \in {404, 500})
    /\ [][StageRank(pc') > StageRank(pc)]_vars

\* A request on the full path ended with a response after six calls returned.
C26_EndedOnFullPath ==
    /\ pc = "done"
    /\ ~should_use_pattern
    /\ http.status = 200
    /\ calls = [i \in 1..Len(Stages) |-> "returned"]

\* The paths of a request to the backend that do not exist.
MissingPaths ==
    {i \in 1..Len(backend.file_paths) : FullPath(backend.file_paths[i]) \notin BackendFiles}

\* C27: the backend calls the AI service only if every path of the request
\* exists, and then with every path made absolute; a request with a missing
\* path is never forwarded and is answered 404.
C27_ForwardedOnlyIfAllPathsExist ==
    backend.pc \in {"forwarded", "answered"} =>
        /\ backend.ai_called => MissingPaths = {}
        /\ backend.ai_called =>
               backend.forwarded =
                   [i \in 1..Len(backend.file_paths) |-> FullPath(backend.file_paths[i])]
        /\ MissingPaths # {} =>
               /\ backend.pc = "answered"
               /\ backend.status = 404
               /\ ~backend.ai_called
               /\ backend.ai = NoOutcome
        /\ MissingPaths = {} => backend.ai_called

\* A request whose second path is missing was answered 404 without a call of
\* the AI service.
C27_SecondPathMissing ==
    /\ backend.pc = "answered"
    /\ backend.file_paths = <<PathA, PathGone>>
    /\ backend.status = 404
    /\ ~backend.ai_called

\* C28: an HTTP error status of the AI service is the status the backend
\* answers; a connection error gives 503 and a timeout 504.
C28_ErrorStatusPassedOn ==
    backend.pc = "answered" =>
        /\ (backend.ai.kind = "response" /\ backend.ai.status >= 400) =>
               backend.status = backend.ai.status
        /\ backend.ai.kind = "ConnectionError" => backend.status = 503
        /\ IsTimeout(backend.ai) => backend.status = 504

NonSystem(messages) == SelectSeq(messages, LAMBDA msg : msg.role # "system")
HasSystem(messages) == \E i \in 1..Len(messages) : messages[i].role = "system"
AfterSystem(messages, result) == IF HasSystem(messages) THEN Tail(result) ELSE result

\* C29: ask_question makes at most 25 completion calls with tools and then at
\* most one summary call, and whatever the completions are it returns a string:
\* the first response that is not a tool call ends it, and a failing call is
\* returned as an error message.
CallsBounded ==
    /\ analyzer.tool_enabled_calls <= 25
    /\ analyzer.summary_calls <= 1
    /\ analyzer.tool_enabled_calls + analyzer.summary_calls <= 26
    /\ analyzer.summary_calls = 1 => analyzer.tool_enabled_calls = 25

C29_BoundedCallsStringReturned ==
    analyzer.op = "ask" =>
        /\ CallsBounded
        /\ analyzer.pc = "returned" => analyzer.returned.type = "str"

\* C30: the result of trim_conversation_with_summary starts with the system
\* message when the conversation has one; after it come, for more than 10
\* other messages, the first 3 of them, one summary message and the last 5, in
\* their order and at most 10 messages in all, and otherwise the last 8 of them
\* (all of them when they are fewer).
C30_TrimKeepsSystemHeadAndTail ==
    (analyzer.op = "trim" /\ analyzer.pc = "returned") =>
        LET messages == analyzer.messages
            result == analyzer.result
            others == NonSystem(messages)
            rest == AfterSystem(messages, result)
            n == Len(others)
        IN  /\ HasSystem(messages) =>
                  /\ result # <<>>
                  /\ result[1].role = "system"
                  /\ \E i \in 1..Len(messages) : messages[i] = result[1]
            /\ \A i \in 1..Len(rest) : rest[i].role # "system"
            /\ n > 10 =>
                  /\ Len(result) <= 10
                  /\ Len(rest) = 9
                  /\ \A i \in 1..3 : rest[i] = others[i]
                  /\ rest[4].role = "assistant" /\ rest[4].content = SummaryContent
                  /\ \A i \in 1..5 : rest[4 + i] = others[n - 5 + i]
            /\ n <= 10 =>
                  /\ Len(rest) = Min(8, n)
                  /\ \A i \in 1..Len(rest) : rest[i] = others[n - Len(rest) + i]

C30_SummarisedUnderSystemMessage ==
    /\ analyzer.op = "trim"
    /\ analyzer.pc = "returned"
    /\ HasSystem(analyzer.messages)
    /\ Len(NonSystem(analyzer.messages)) > 10
    /\ Len(analyzer.result) = 10
    /\ analyzer.result[5] = summary_message
====
